---- MODULE Spec2Model ----
(***************************************************************************)
(* Model of the seshat / anubis command-line toolkits                      *)
(* (src/seshat/utils.py, src/anubis/tasks/spark.py).                       *)
(*                                                                         *)
(* Every helper or task of the source is one operator that threads a       *)
(* "world" record (process environment, installed tools, file system,     *)
(* the commands issued so far) and returns the world after the call, the   *)
(* returned value and the exception that left the function, if any.  The   *)
(* outcome of each external command is an input of the operator.  An       *)
(* action applies one whole entry point and stores what it observed.       *)
(***************************************************************************)
EXTENDS Integers, Sequences, FiniteSets, TLC

VARIABLES
    environ,    \* os.environ: variable name -> value, None when unset
    path,       \* os.environ["PATH"] as a sequence of directories
    sys_bin,    \* tools resolvable through the system directories of PATH
    local_bin,  \* executables present in ~/.local/bin
    fs,         \* the directories and files the tasks work on
    call,       \* the last entry point called, with its arguments
    ret,        \* the value it returned (None when it raised)
    exc,        \* the exception that left it (None when it returned)
    cmds,       \* the external commands it issued, in order
    envs        \* the environment mappings it handed to subprocesses

vars == <<environ, path, sys_bin, local_bin, fs, call, ret, exc, cmds, envs>>

-----------------------------------------------------------------------------
(* Python values.  Strings stand for str values; None, True and False are  *)
(* the three distinguished strings below.                                  *)

None == "None"
PyTrue == "True"
PyFalse == "False"

\* bool(v) for the values of the model
Truthy(v) == v \notin {None, "", PyFalse}

\* Python's `a or b`
Or(a, b) == IF Truthy(a) THEN a ELSE b

\* str.strip() on the strings the model uses
Strip(p) ==
    IF p = " api " THEN "api"
    ELSE IF p = " typed " THEN "typed"
    ELSE IF p = " " THEN ""
    ELSE p

EmptyDict == [k \in {} |-> None]

\* dict.get(key) and dict.get(key, default)
Get(d, k) == IF k \in DOMAIN d THEN d[k] ELSE None
GetD(d, k, dflt) == IF k \in DOMAIN d THEN d[k] ELSE dflt

\* every dict with keys among K and values among V
Dicts(K, V) == UNION {[D -> V] : D \in SUBSET K}

\* an optional dict argument (None or a dict)
NoDict == [some |-> FALSE, d |-> EmptyDict]
Some(d) == [some |-> TRUE, d |-> d]
\* Python's `bws_secrets or {}`
DictOrEmpty(o) == IF o.some THEN o.d ELSE EmptyDict

AWS_KEY_ID_VARIABLE_NAME == "AWS_ACCESS_KEY_ID"
AWS_SECRET_VARIABLE_NAME == "AWS_SECRET_ACCESS_KEY"
AWS_TOKEN_VARIABLE_NAME == "AWS_SESSION_TOKEN"
BWS_TOKEN_VARIABLE_NAME == "BWS_ACCESS_TOKEN"

AwsKeys == {AWS_KEY_ID_VARIABLE_NAME, AWS_SECRET_VARIABLE_NAME,
            AWS_TOKEN_VARIABLE_NAME}
EnvKeys == AwsKeys \cup {BWS_TOKEN_VARIABLE_NAME}

\* os.environ.get(key)
EnvGet(env, k) == IF k \in DOMAIN env THEN env[k] ELSE None

-----------------------------------------------------------------------------
(* _get_config_from_sources: environment, then secrets, then default.      *)

GetConfigSecretsFirst(env, key, bws_secrets, default) ==
    Or(Or(Get(DictOrEmpty(bws_secrets), key), EnvGet(env, key)), default)

GetConfigDefaultFirst(env, key, bws_secrets, default) ==
    Or(Or(EnvGet(env, key), default), Get(DictOrEmpty(bws_secrets), key))

_get_config_from_sources(env, key, bws_secrets, default) ==
    Or(Or(EnvGet(env, key), Get(DictOrEmpty(bws_secrets), key)), default)

-----------------------------------------------------------------------------
(* Worlds, results and the trace of external commands.                     *)

LOCAL_BIN_PATH == "~/.local/bin"
SYSTEM_BIN_PATH == "/usr/bin"

\* the world a call starts in (no command issued yet)
World == [environ |-> environ, path |-> path, sys_bin |-> sys_bin,
          local_bin |-> local_bin, fs |-> fs, cmds |-> <<>>, envs |-> <<>>]

\* an external command, download or file operation is issued
Emit(w, kind, detail) == [w EXCEPT !.cmds = Append(@, <<kind, detail>>)]

\* a step is issued with a mapping: the env= of a subprocess, the
\* bws_secrets= of a fetch
EmitEnv(w, kind, detail, mapping) ==
    [Emit(w, kind, detail) EXCEPT !.envs = Append(@, <<kind, mapping>>)]

\* a function returns a value / is left by an exception
Return(w, v) == [w |-> w, ret |-> v, exc |-> None]
Raise(w, e) == [w |-> w, ret |-> None, exc |-> e]

Range(s) == {s[i] : i \in DOMAIN s}
Kinds(trace) == {trace[i][1] : i \in DOMAIN trace}
Count(trace, kind) == Cardinality({i \in DOMAIN trace : trace[i][1] = kind})
Has(trace, kind, detail) == \E i \in DOMAIN trace : trace[i] = <<kind, detail>>

\* ":".join(dirs)
RECURSIVE JoinPath(_)
JoinPath(dirs) ==
    IF dirs = <<>> THEN ""
    ELSE IF Len(dirs) = 1 THEN dirs[1]
    ELSE dirs[1] \o ":" \o JoinPath(Tail(dirs))

\* dict(os.environ): the variables that are set, PATH among them
OsEnviron(w) ==
    [k \in {v \in DOMAIN w.environ : w.environ[v] # None} \cup {"PATH"} |->
        IF k = "PATH" THEN JoinPath(w.path) ELSE w.environ[k]]

\* {**a, **b}
Merge(a, b) ==
    [k \in DOMAIN a \cup DOMAIN b |-> IF k \in DOMAIN b THEN b[k] ELSE a[k]]

\* _build_env(env, extra_vars): extra_vars is a dict, empty when not given
_build_env(w, env, extra_vars) ==
    LET base_env == IF env # None THEN Merge(OsEnviron(w), [k \in {"ENV"} |-> env])
                    ELSE OsEnviron(w)
        with_path == IF LOCAL_BIN_PATH \in Range(w.path) THEN base_env
                     ELSE Merge(base_env,
                                [k \in {"PATH"} |->
                                    LOCAL_BIN_PATH \o ":" \o base_env["PATH"]])
    IN  Merge(with_path, extra_vars)

\* the commands that reach out to the network
NetworkKinds == {"curl", "aws ecr get-login-password | docker login",
                 "aws codeartifact get-authorization-token",
                 "bws list secrets", "fetch"}

-----------------------------------------------------------------------------
(* Tool bootstrap: _find_tool, the installers, _ensure_tool_installed.     *)

\* the executables a directory of PATH holds
BinsOf(w, dir) ==
    IF dir = LOCAL_BIN_PATH THEN w.local_bin
    ELSE IF dir = SYSTEM_BIN_PATH THEN w.sys_bin
    ELSE {}

\* shutil.which(tool_name)
Which(w, tool_name) ==
    LET hits == {i \in DOMAIN w.path : tool_name \in BinsOf(w, w.path[i])}
    IN  IF hits = {} THEN None
        ELSE LET first == CHOOSE i \in hits : \A j \in hits : i <= j
             IN  w.path[first] \o "/" \o tool_name

_find_tool(w, tool_name) ==
    IF Which(w, tool_name) # None THEN Which(w, tool_name)
    ELSE IF tool_name \in w.local_bin
         THEN LOCAL_BIN_PATH \o "/" \o tool_name
         ELSE None

\* os.environ["PATH"] = f"{LOCAL_BIN_PATH}:{os.environ.get('PATH', '')}"
PrependLocalBin(w) == [w EXCEPT !.path = <<LOCAL_BIN_PATH>> \o @]

\* what the outside world does to one run of an installer: step is the
\* external step that fails ("ok": none), cleanup is whether the removal in
\* the `finally` block succeeds
InstallSteps == {"ok", "curl", "unzip", "install"}
InstallOutcomes == [step : InstallSteps, cleanup : {"ok", "failed"}]
InstallOk == [step |-> "ok", cleanup |-> "ok"]

\* the `finally` blocks: BWS_ZIP_PATH.unlink() / shutil.rmtree(TMP_DIR),
\* each only if the path exists; a removal that raises is logged as a
\* warning and swallowed, and the path stays
UnlinkBwsZip(w, outcome) ==
    IF outcome.cleanup = "ok" THEN [w EXCEPT !.fs.bws_zip = FALSE] ELSE w
RemoveAwsTemp(w, outcome) ==
    IF outcome.cleanup = "ok" THEN [w EXCEPT !.fs.aws_temp = FALSE] ELSE w

\* _install_bws_cli: curl into ~/.local/bin/bws.zip (a failed download can
\* leave a partial file), unzip into ~/.local/bin, PATH; finally the zip is
\* removed, if it can be
_install_bws_cli(w, outcome) ==
    IF _find_tool(w, "bws") # None THEN Return(w, None)
    ELSE
        LET w1 == [Emit(w, "curl", "bws") EXCEPT !.fs.bws_zip = TRUE]
            w2 == Emit(w1, "unzip", "bws")
            w3 == PrependLocalBin([w2 EXCEPT !.local_bin = @ \cup {"bws"}])
        IN  IF outcome.step = "curl"
            THEN Raise(UnlinkBwsZip(w1, outcome), "CalledProcessError")
            ELSE IF outcome.step = "unzip"
            THEN Raise(UnlinkBwsZip(w2, outcome), "CalledProcessError")
            ELSE Return(UnlinkBwsZip(w3, outcome), None)

\* _uninstall_bws_cli: ~/.local/bin/bws is unlinked when it exists; an
\* unlink that fails is logged, not raised (outcome: "ok" or "failed")
_uninstall_bws_cli(w, outcome) ==
    IF "bws" \in w.local_bin /\ outcome = "ok"
    THEN Return([w EXCEPT !.local_bin = @ \ {"bws"}], None)
    ELSE Return(w, None)

\* the task bws.remove-cli
remove_bws_cli(w, outcome) == _uninstall_bws_cli(w, outcome)

InstallAwsCliCleanupOnSuccess(w, outcome) ==
    IF _find_tool(w, "aws") # None THEN Return(w, None)
    ELSE
        LET w0 == [w EXCEPT !.fs.aws_temp = TRUE]
            w1 == Emit(w0, "curl", "aws")
            w2 == Emit(w1, "unzip", "aws")
            w3 == Emit(w2, "install", "aws")
            w4 == PrependLocalBin([w3 EXCEPT !.local_bin = @ \cup {"aws"}])
        IN  IF outcome.step = "curl" THEN Raise(w1, "CalledProcessError")
            ELSE IF outcome.step = "unzip" THEN Raise(w2, "CalledProcessError")
            ELSE IF outcome.step = "install" THEN Raise(w3, "CalledProcessError")
            ELSE Return(RemoveAwsTemp(w4, outcome), None)

\* _install_aws_cli: mkdir ~/aws_temp, curl and unzip into it, run the
\* installer, PATH; finally ~/aws_temp is removed, if it can be
_install_aws_cli(w, outcome) ==
    IF _find_tool(w, "aws") # None THEN Return(w, None)
    ELSE
        LET w0 == [w EXCEPT !.fs.aws_temp = TRUE]
            w1 == Emit(w0, "curl", "aws")
            w2 == Emit(w1, "unzip", "aws")
            w3 == Emit(w2, "install", "aws")
            w4 == PrependLocalBin([w3 EXCEPT !.local_bin = @ \cup {"aws"}])
        IN  IF outcome.step = "curl"
            THEN Raise(RemoveAwsTemp(w1, outcome), "CalledProcessError")
            ELSE IF outcome.step = "unzip"
            THEN Raise(RemoveAwsTemp(w2, outcome), "CalledProcessError")
            ELSE IF outcome.step = "install"
            THEN Raise(RemoveAwsTemp(w3, outcome), "CalledProcessError")
            ELSE Return(RemoveAwsTemp(w4, outcome), None)

\* the install_function argument of _ensure_tool_installed
Installer(tool_name, w, outcome) ==
    IF tool_name = "bws" THEN _install_bws_cli(w, outcome)
    ELSE _install_aws_cli(w, outcome)

EnsureToolInstallerRaises(w, tool_name, outcome) ==
    IF _find_tool(w, tool_name) # None THEN Return(w, PyTrue)
    ELSE LET r == Installer(tool_name, w, outcome)
         IN  IF r.exc = None THEN Return(r.w, PyTrue)
             ELSE r

_ensure_tool_installed(w, tool_name, outcome) ==
    IF _find_tool(w, tool_name) # None THEN Return(w, PyTrue)
    ELSE LET r == Installer(tool_name, w, outcome)
         IN  IF r.exc = None THEN Return(r.w, PyTrue)
             ELSE Return(r.w, PyFalse)

-----------------------------------------------------------------------------
(* The deployment descriptor.                                              *)

\* a parsed descriptor: scalar keys, the job map and the profiles list
NoJobs == [present |-> FALSE, items |-> <<>>]
NoProfiles == [present |-> FALSE, items |-> <<>>]
Config(data, jobs, profiles) ==
    [data |-> data, jobs |-> jobs, profiles |-> profiles]
EmptyConfig == Config(EmptyDict, NoJobs, NoProfiles)

\* a descriptor file: missing, not YAML, empty (yaml.safe_load gives None),
\* or holding a config
MissingFile == [state |-> "missing", config |-> EmptyConfig]
InvalidFile == [state |-> "invalid", config |-> EmptyConfig]
EmptyFile == [state |-> "empty", config |-> EmptyConfig]
File(config) == [state |-> "ok", config |-> config]

LoadConfigNoExistsCheck(file) ==
    IF file.state = "missing"
    THEN [config |-> EmptyConfig, exc |-> "FileNotFoundError"]
    ELSE IF file.state = "invalid"
         THEN [config |-> EmptyConfig, exc |-> "YAMLError"]
         ELSE [config |-> file.config, exc |-> None]

_load_deployment_config(file) ==
    IF file.state = "missing" THEN [config |-> EmptyConfig, exc |-> "Exit"]
    ELSE IF file.state = "invalid"
         \* `except yaml.YAMLError: ... raise`
         THEN [config |-> EmptyConfig, exc |-> "YAMLError"]
    \* `yaml.safe_load(f) or {}`
    ELSE IF file.state = "empty" THEN [config |-> EmptyConfig, exc |-> None]
    ELSE [config |-> file.config, exc |-> None]

\* _get_aws_account_id / _get_aws_region: a required key of the descriptor
RequiredKey(w, file, key) ==
    LET c == _load_deployment_config(file)
    IN  IF c.exc # None THEN Raise(w, c.exc)
        ELSE IF ~Truthy(Get(c.config.data, key)) THEN Raise(w, "Exit")
        ELSE Return(w, Get(c.config.data, key))

_get_aws_account_id(w, file) == RequiredKey(w, file, "aws_account_id")
_get_aws_region(w, file) == RequiredKey(w, file, "aws_region")

-----------------------------------------------------------------------------
(* Cloud credentials: _aws_ecr_login and _get_codeartifact_token.          *)

ECR_LOGIN == "aws ecr get-login-password | docker login"
CODEARTIFACT_TOKEN == "aws codeartifact get-authorization-token"

\* the credentials both functions resolve, in the order of the source
Credentials(w, bws_secrets) ==
    [access |-> _get_config_from_sources(w.environ, AWS_KEY_ID_VARIABLE_NAME,
                                         Some(bws_secrets), None),
     secret |-> _get_config_from_sources(w.environ, AWS_SECRET_VARIABLE_NAME,
                                         Some(bws_secrets), None),
     token  |-> _get_config_from_sources(w.environ, AWS_TOKEN_VARIABLE_NAME,
                                         Some(bws_secrets), None)]

\* the variables both functions add for the aws subprocess
CredentialVars(cred, aws_region) ==
    Merge([k \in {AWS_KEY_ID_VARIABLE_NAME, AWS_SECRET_VARIABLE_NAME, "AWS_REGION"} |->
              IF k = AWS_KEY_ID_VARIABLE_NAME THEN cred.access
              ELSE IF k = AWS_SECRET_VARIABLE_NAME THEN cred.secret
              ELSE aws_region],
          IF Truthy(cred.token)
          THEN [k \in {AWS_TOKEN_VARIABLE_NAME} |-> cred.token]
          ELSE EmptyDict)

\* outcomes of the login pipeline (subprocess.run without check=True)
LoginOutcomes == {"ok", "failed"}

\* _aws_ecr_login from the configuration lookups on; tool is the result of
\* _ensure_tool_installed("aws", _install_aws_cli)
EcrLoginWithTool(tool, bws_secrets, file, login_outcome) ==
    LET acct == _get_aws_account_id(tool.w, file)
        regn == _get_aws_region(tool.w, file)
        cred == Credentials(tool.w, bws_secrets)
    IN  IF tool.ret = PyFalse THEN Return(tool.w, PyFalse)
        ELSE IF acct.exc # None THEN Raise(tool.w, acct.exc)
        ELSE IF regn.exc # None THEN Raise(tool.w, regn.exc)
        ELSE IF ~(Truthy(cred.access) /\ Truthy(cred.secret)
                  /\ Truthy(regn.ret) /\ Truthy(acct.ret))
             THEN Return(tool.w, PyFalse)
             \* subprocess.run has no check=True: it raises no
             \* CalledProcessError, whatever the pipeline's exit status
             ELSE Return(EmitEnv(tool.w, ECR_LOGIN, login_outcome,
                            _build_env(tool.w, None,
                                       CredentialVars(cred, regn.ret))),
                    PyTrue)

EcrLoginExportsCredentials(w, bws_secrets, file, install_outcome, login_outcome) ==
    LET tool == _ensure_tool_installed(w, "aws", install_outcome)
        acct == _get_aws_account_id(tool.w, file)
        regn == _get_aws_region(tool.w, file)
        cred == Credentials(tool.w, bws_secrets)
        w1   == [tool.w EXCEPT !.environ =
                    [k \in DOMAIN @ |->
                        IF k = AWS_KEY_ID_VARIABLE_NAME THEN cred.access
                        ELSE IF k = AWS_SECRET_VARIABLE_NAME THEN cred.secret
                        ELSE @[k]]]
    IN  IF tool.ret = PyFalse THEN Return(tool.w, PyFalse)
        ELSE IF acct.exc # None THEN Raise(tool.w, acct.exc)
        ELSE IF regn.exc # None THEN Raise(tool.w, regn.exc)
        ELSE IF ~(Truthy(cred.access) /\ Truthy(cred.secret)
                  /\ Truthy(regn.ret) /\ Truthy(acct.ret))
             THEN Return(tool.w, PyFalse)
             ELSE Return(EmitEnv(w1, ECR_LOGIN, login_outcome, OsEnviron(w1)),
                         PyTrue)

EcrLoginConfigAfterCredentials(w, bws_secrets, file, install_outcome, login_outcome) ==
    LET tool == _ensure_tool_installed(w, "aws", install_outcome)
        cred == Credentials(tool.w, bws_secrets)
        acct == _get_aws_account_id(tool.w, file)
        regn == _get_aws_region(tool.w, file)
    IN  IF tool.ret = PyFalse THEN Return(tool.w, PyFalse)
        ELSE IF ~(Truthy(cred.access) /\ Truthy(cred.secret))
             THEN Return(tool.w, PyFalse)
        ELSE IF acct.exc # None THEN Raise(tool.w, acct.exc)
        ELSE IF regn.exc # None THEN Raise(tool.w, regn.exc)
        ELSE Return(EmitEnv(tool.w, ECR_LOGIN, login_outcome,
                            _build_env(tool.w, None,
                                       CredentialVars(cred, regn.ret))),
                    PyTrue)

_aws_ecr_login(w, bws_secrets, file, install_outcome, login_outcome) ==
    EcrLoginWithTool(_ensure_tool_installed(w, "aws", install_outcome),
                     bws_secrets, file, login_outcome)

\* _check_aws_configuration(bws_secrets, deployment_file): file is the
\* descriptor deployment_file names, default_file the descriptor at
\* DEFAULT_DEPLOYMENT_FILE, which _aws_ecr_login(bws_secrets) reads because
\* the call passes no deployment_file
_check_aws_configuration(w, bws_secrets, file, default_file, login_outcome) ==
    LET aws_cli_installed == _find_tool(w, "aws") # None
        aws_access_key == Get(bws_secrets, AWS_KEY_ID_VARIABLE_NAME)
        aws_secret_key == Get(bws_secrets, AWS_SECRET_VARIABLE_NAME)
        acct  == _get_aws_account_id(w, file)
        regn  == _get_aws_region(w, file)
        login == _aws_ecr_login(w, bws_secrets, default_file, InstallOk, login_outcome)
    IN  IF acct.exc # None THEN Raise(w, acct.exc)
        ELSE IF regn.exc # None THEN Raise(w, regn.exc)
        ELSE IF aws_cli_installed /\ Truthy(aws_access_key)
                /\ Truthy(aws_secret_key) /\ Truthy(acct.ret) /\ Truthy(regn.ret)
             THEN IF login.exc # None THEN login
                  ELSE Return(login.w, None)
        ELSE Return(w, None)

\* outcomes of `aws codeartifact get-authorization-token --output json`:
\* non-zero exit; or exit 0 with stdout a JSON object holding a token, a JSON
\* object without one, text that is not JSON, or JSON that is not an object
TokenOutcomes == {"failed", "token", "no_token", "not_json", "not_object"}

CODEARTIFACT_TOKEN_VALUE == "authorizationToken"

\* _get_codeartifact_token: the request runs ["aws", ...] with
\* env={**os.environ, credentials}, so the executable is looked up on the
\* PATH of the process, which _build_env is not asked to extend: a tool that
\* _find_tool resolved through ~/.local/bin alone is not found by the request
_get_codeartifact_token(w, bws_secrets, file, install_outcome, token_outcome) ==
    LET tool == _ensure_tool_installed(w, "aws", install_outcome)
        acct == _get_aws_account_id(tool.w, file)
        regn == _get_aws_region(tool.w, file)
        cred == Credentials(tool.w, bws_secrets)
        conf == _load_deployment_config(file)
        w1   == EmitEnv(tool.w, CODEARTIFACT_TOKEN, token_outcome,
                        Merge(OsEnviron(tool.w), CredentialVars(cred, regn.ret)))
    IN  IF tool.ret = PyFalse THEN Return(tool.w, None)
        ELSE IF acct.exc # None THEN Raise(tool.w, acct.exc)
        ELSE IF regn.exc # None THEN Raise(tool.w, regn.exc)
        ELSE IF ~(Truthy(cred.access) /\ Truthy(cred.secret)
                  /\ Truthy(acct.ret) /\ Truthy(regn.ret))
             THEN Return(tool.w, None)
        ELSE IF conf.exc # None THEN Raise(tool.w, conf.exc)
        ELSE IF ~Truthy(Get(conf.config.data, "codeartifact_domain"))
             THEN Raise(tool.w, "Exit")
        ELSE IF Which(tool.w, "aws") = None
             THEN Raise(w1, "FileNotFoundError")
        ELSE IF token_outcome = "failed" THEN Raise(w1, "Exit")
        ELSE IF token_outcome = "not_json" THEN Raise(w1, "JSONDecodeError")
        ELSE IF token_outcome = "not_object" THEN Raise(w1, "AttributeError")
        ELSE IF token_outcome = "no_token" THEN Raise(w1, "Exit")
        ELSE Return(w1, CODEARTIFACT_TOKEN_VALUE)

-----------------------------------------------------------------------------
(* Secret provider: _get_bws_token, _ensure_bws_token,                     *)
(* _load_secrets_from_bws.                                                 *)

BWS_LIST == "bws list secrets"

_get_bws_token(w, file) ==
    IF Truthy(EnvGet(w.environ, BWS_TOKEN_VARIABLE_NAME))
    THEN Return(w, EnvGet(w.environ, BWS_TOKEN_VARIABLE_NAME))
    ELSE LET c == _load_deployment_config(file)
         IN  IF c.exc # None THEN Raise(w, c.exc)
             ELSE IF Truthy(Get(c.config.data, "bws_access_token"))
                  THEN Return(w, Get(c.config.data, "bws_access_token"))
                  ELSE Return(w, None)

\* what the operator does at the prompt: types a line (a token, a token
\* between blanks, nothing, blanks), closes the input, or interrupts
PromptOutcomes ==
    {"typed", " typed ", "", " ", "EOFError", "KeyboardInterrupt"}

EnsureBwsTokenInterruptEscapes(w, file, prompt) ==
    LET t == _get_bws_token(w, file)
        w1 == Emit(w, "input", prompt)
    IN  IF t.exc # None THEN t
        ELSE IF t.ret # None THEN t
        ELSE IF prompt \in {"EOFError", "KeyboardInterrupt"}
             THEN Raise(w1, prompt)
        ELSE IF ~Truthy(Strip(prompt)) THEN Return(w1, None)
        ELSE Return(w1, Strip(prompt))

_ensure_bws_token(w, file, prompt) ==
    LET t == _get_bws_token(w, file)
        w1 == Emit(w, "input", prompt)
    IN  IF t.exc # None THEN t
        ELSE IF t.ret # None THEN t
        \* `except (EOFError, KeyboardInterrupt)`
        ELSE IF prompt \in {"EOFError", "KeyboardInterrupt"}
             THEN Return(w1, None)
        \* `token = input(...).strip()`
        ELSE IF ~Truthy(Strip(prompt)) THEN Return(w1, None)
        ELSE Return(w1, Strip(prompt))

\* the standard output of `bws list secrets` as json.loads sees it:
\* t is "invalid" (not JSON, the empty output included), "null", "number",
\* "string", "object" or "list"; items are the elements iterating over it
\* yields; an element is a record {key, value} (a missing field is None) or
\* anything else (a scalar)
Json(t, items) == [t |-> t, items |-> items]
SecretRecord(key, value) == [t |-> "record", key |-> key, value |-> value]
Scalar == [t |-> "scalar", key |-> None, value |-> None]

\* the loop `for secret in secrets_list`, from element i on, into dict d:
\* the dict built, or the exception that ends the loop
RECURSIVE CollectSecrets(_, _, _)
CollectSecrets(items, i, d) ==
    IF i > Len(items) THEN [d |-> d, exc |-> None]
    ELSE IF items[i].t # "record" THEN [d |-> d, exc |-> "AttributeError"]
    ELSE IF Truthy(items[i].key) /\ Truthy(items[i].value)
         THEN CollectSecrets(items, i + 1,
                 [k \in DOMAIN d \cup {items[i].key} |->
                     IF k = items[i].key THEN items[i].value ELSE d[k]])
         ELSE CollectSecrets(items, i + 1, d)
LoadSecretsWithoutToolCheck(w, file, o) ==
    LET tok  == _ensure_bws_token(w, file, o.prompt)
        tool == _ensure_tool_installed(tok.w, "bws", o.bws_install)
        w1   == Emit(tool.w, BWS_LIST, tok.ret)
        got  == CollectSecrets(o.bws.stdout.items, 1, EmptyDict)
    IN  IF tok.exc # None THEN tok
        ELSE IF ~Truthy(tok.ret) THEN Return(tok.w, EmptyDict)
        ELSE IF o.bws.stdout.t = "invalid" THEN Return(w1, EmptyDict)
        ELSE IF o.bws.stdout.t \in {"null", "number"}
             THEN Raise(w1, "TypeError")
        ELSE IF got.exc # None THEN Raise(w1, got.exc)
        ELSE Return(w1, got.d)

\* o.prompt, o.bws_install, o.bws: the operator at the prompt, the outcome
\* of installing bws, and the result [ok, stdout] of the listing command
_load_secrets_from_bws(w, file, o) ==
    LET tok  == _ensure_bws_token(w, file, o.prompt)
        tool == _ensure_tool_installed(tok.w, "bws", o.bws_install)
        w1   == Emit(tool.w, BWS_LIST, tok.ret)
        got  == CollectSecrets(o.bws.stdout.items, 1, EmptyDict)
    IN  IF tok.exc # None THEN tok
        ELSE IF ~Truthy(tok.ret) THEN Return(tok.w, EmptyDict)
        ELSE IF tool.ret = PyFalse THEN Return(tool.w, EmptyDict)
        \* subprocess.run has no check=True: the exit status is not looked at
        ELSE IF o.bws.stdout.t = "invalid" THEN Return(w1, EmptyDict)
        ELSE IF o.bws.stdout.t \in {"null", "number"}
             THEN Raise(w1, "TypeError")
        ELSE IF got.exc # None THEN Raise(w1, got.exc)
        ELSE Return(w1, got.d)

-----------------------------------------------------------------------------
(* Service lifecycle: the restart block that ends deploy_jobs and          *)
(* remove_jobs.                                                            *)

COMPOSE_PS == "compose ps --status running --quiet"
COMPOSE_DOWN == "compose down"
COMPOSE_UP == "compose up -d"

Services == <<"apache_livy", "airflow-scheduler">>

RestartCommandsStopsFirst ==
    <<<<COMPOSE_DOWN, Services[1]>>, <<COMPOSE_DOWN, Services[2]>>,
      <<COMPOSE_UP, Services[1]>>, <<COMPOSE_UP, Services[2]>>>>

\* the stop and start commands in the order the source issues them
RestartCommands ==
    <<<<COMPOSE_DOWN, Services[1]>>, <<COMPOSE_UP, Services[1]>>,
      <<COMPOSE_DOWN, Services[2]>>, <<COMPOSE_UP, Services[2]>>>>

\* line.strip() is empty
Blank(line) == line \in {"", " "}

\* any(line.strip() for line in docker_info.stdout.splitlines())
AnyRunning(stdout) == \E i \in DOMAIN stdout : ~Blank(stdout[i])

\* what the query reported, as the task reads it: the task looks at stdout
\* only, never at the exit status
PsReport(query) ==
    IF AnyRunning(query.stdout) THEN "running"
    ELSE IF ~query.ok THEN "failed" ELSE "none"

RECURSIVE IssueAll(_, _, _, _)
\* ctx.run of the commands from the i-th on; the failing-th one exits
\* non-zero and ctx.run (warn=False) raises UnexpectedExit
IssueAll(w, commands, i, failing) ==
    IF i > Len(commands) THEN Return(w, None)
    ELSE LET w1 == Emit(w, commands[i][1], commands[i][2])
         IN  IF i = failing THEN Raise(w1, "UnexpectedExit")
             ELSE IssueAll(w1, commands, i + 1, failing)

RestartAlways(w, env, query, failing) ==
    IssueAll(Emit(w, COMPOSE_PS, PsReport(query)), RestartCommands, 1, failing)

\* ps: the result [ok, stdout] of the running-container query (warn=True:
\* a failure does not raise); failing: which stop/start command fails (0: none)
RestartIfRunning(w, env, query, failing) ==
    LET w1 == Emit(w, COMPOSE_PS, PsReport(query))
    IN  IF AnyRunning(query.stdout)
        THEN IssueAll(w1, RestartCommands, 1, failing)
        ELSE Return(w1, None)

-----------------------------------------------------------------------------
(* Artifact deployment: deploy_jobs and remove_jobs.                       *)

WORKSPACE == "~/spark_jobs"

\* one entry of airflow_dags: package name and params['version'] (None when
\* the params hold no version)
Job(name, version) == [name |-> name, version |-> version]

Steps == <<"fetch", "extract", "render", "place">>
NoFailure == <<0, "none">>

\* _get_cached_config(path)
_get_cached_config(file) == _load_deployment_config(file)

\* _get_zip_from_codeartifact(..., bws_secrets=bws_secrets, ...): the
\* archive lands in its workspace directory
_get_zip_from_codeartifact(w, job, bws_secrets) ==
    [EmitEnv(w, "fetch", job.name, bws_secrets)
        EXCEPT !.fs.ws_dirs = @ \cup {job.name}]

\* _unzip_artifact, _render_dag_template: work inside the job's directory
_unzip_artifact(w, job) == Emit(w, "extract", job.name)
_render_dag_template(w, job) == Emit(w, "render", job.name)

\* _deploy_job_and_dag_files: the descriptor into dags_path, the job files
\* into jobs_path
_deploy_job_and_dag_files(w, job) ==
    [Emit(w, "place", job.name) EXCEPT !.fs.dags_files = @ \cup {job.name},
                                       !.fs.jobs_files = @ \cup {job.name}]

\* _remove_job_and_dag_files: both directories back to their empty state
_remove_job_and_dag_files(w) ==
    [Emit(w, "remove", "dags_path, jobs_path")
        EXCEPT !.fs.dags_files = {}, !.fs.jobs_files = {}]

DeployJobRenderBeforeExtract(w, job, bws_secrets, failstep) ==
    LET w0 == EmitEnv(w, "fetch", job.name, bws_secrets)
        w1 == _get_zip_from_codeartifact(w, job, bws_secrets)
        w2 == _render_dag_template(w1, job)
        w3 == _unzip_artifact(w2, job)
        w4 == _deploy_job_and_dag_files(w3, job)
    IN  IF job.version = None THEN Raise(w, "KeyError")
        ELSE IF failstep = "fetch" THEN Raise(w0, "Exception")
        ELSE IF failstep = "render" THEN Raise(w2, "Exception")
        ELSE IF failstep = "extract" THEN Raise(w3, "Exception")
        ELSE IF failstep = "place"
             THEN Raise(Emit(w3, "place", job.name), "Exception")
        ELSE Return(w4, None)

\* one pass of the loop body; failstep names the step whose external tool
\* fails ("none": no step fails), which raises out of the step
DeployJob(w, job, bws_secrets, failstep) ==
    LET w0 == EmitEnv(w, "fetch", job.name, bws_secrets)
        w1 == _get_zip_from_codeartifact(w, job, bws_secrets)
        w2 == _unzip_artifact(w1, job)
        w3 == _render_dag_template(w2, job)
        w4 == _deploy_job_and_dag_files(w3, job)
    IN  IF job.version = None THEN Raise(w, "KeyError")
        ELSE IF failstep = "fetch" THEN Raise(w0, "Exception")
        ELSE IF failstep = "extract" THEN Raise(w2, "Exception")
        ELSE IF failstep = "render" THEN Raise(w3, "Exception")
        ELSE IF failstep = "place"
             THEN Raise(Emit(w3, "place", job.name), "Exception")
        ELSE Return(w4, None)

RECURSIVE DeployLoopSkipFailed(_, _, _, _, _)
DeployLoopSkipFailed(w, items, i, bws_secrets, fail) ==
    IF i > Len(items) THEN Return(w, None)
    ELSE LET r == DeployJob(w, items[i], bws_secrets,
                            IF fail[1] = i THEN fail[2] ELSE "none")
         IN  DeployLoopSkipFailed(r.w, items, i + 1, bws_secrets, fail)

RECURSIVE DeployLoop(_, _, _, _, _)
\* `for package_name, params in dags_config.items()`, from the i-th job on;
\* fail = <<job index, step>> is the step that fails, NoFailure if none does
DeployLoop(w, items, i, bws_secrets, fail) ==
    IF i > Len(items) THEN Return(w, None)
    ELSE LET r == DeployJob(w, items[i], bws_secrets,
                            IF fail[1] = i THEN fail[2] ELSE "none")
         IN  IF r.exc # None THEN r
             ELSE DeployLoop(r.w, items, i + 1, bws_secrets, fail)
EffectiveLoadSecretsConfigFirst(load_secrets_from_bws, config) ==
    IF "load_secrets_from_bws" \in DOMAIN config.data
    THEN config.data["load_secrets_from_bws"]
    ELSE IF load_secrets_from_bws # None THEN load_secrets_from_bws
    ELSE PyTrue

\* load_secrets_from_bws if given, else the descriptor's key, else True
EffectiveLoadSecrets(load_secrets_from_bws, config) ==
    IF load_secrets_from_bws # None THEN load_secrets_from_bws
    ELSE GetD(config.data, "load_secrets_from_bws", PyTrue)

MakeWorkspace(w) ==
    [Emit(w, "mkdir", WORKSPACE) EXCEPT !.fs.ws_exists = TRUE]
RemoveWorkspace(w) ==
    [Emit(w, "rmtree", WORKSPACE) EXCEPT !.fs.ws_exists = FALSE,
                                         !.fs.ws_dirs = {}]

\* deploy_jobs from `dags_config = config.get('airflow_dags')` on
DeployRestartOnEmpty(w, config, bws_secrets, env, o) ==
    LET loop == DeployLoop(MakeWorkspace(w), config.jobs.items, 1,
                           bws_secrets, o.fail)
    IN  IF ~config.jobs.present \/ config.jobs.items = <<>>
        THEN RestartIfRunning(w, env, o.ps, o.failing)
        ELSE IF loop.exc # None THEN loop
        ELSE RestartIfRunning(RemoveWorkspace(loop.w), env, o.ps, o.failing)

DeployAndRestart(w, config, bws_secrets, env, o) ==
    LET loop == DeployLoop(MakeWorkspace(w), config.jobs.items, 1,
                           bws_secrets, o.fail)
    IN  IF ~config.jobs.present \/ config.jobs.items = <<>>
        THEN Return(w, None)
        ELSE IF loop.exc # None THEN loop
        ELSE RestartIfRunning(RemoveWorkspace(loop.w), env, o.ps, o.failing)
DeployJobsSecretsBeforeTool(w, load_secrets_from_bws, file, env, o) ==
    LET conf == _get_cached_config(file)
        sec  == IF Truthy(EffectiveLoadSecrets(load_secrets_from_bws, conf.config))
                THEN _load_secrets_from_bws(w, file, o)
                ELSE Return(w, EmptyDict)
        tool == _ensure_tool_installed(sec.w, "aws", o.aws_install)
    IN  IF conf.exc # None THEN Raise(w, conf.exc)
        ELSE IF ~w.fs.dags_exists THEN Raise(w, "Exit")
        ELSE IF ~w.fs.jobs_exists THEN Raise(w, "Exit")
        ELSE IF sec.exc # None THEN sec
        ELSE IF tool.ret = PyFalse THEN Raise(tool.w, "Exit")
        ELSE DeployAndRestart(tool.w, conf.config, sec.ret, env, o)

DeployJobsToolBeforePaths(w, load_secrets_from_bws, file, env, o) ==
    LET conf == _get_cached_config(file)
        tool == _ensure_tool_installed(w, "aws", o.aws_install)
        sec  == _load_secrets_from_bws(tool.w, file, o)
    IN  IF conf.exc # None THEN Raise(w, conf.exc)
        ELSE IF tool.ret = PyFalse THEN Raise(tool.w, "Exit")
        ELSE IF ~tool.w.fs.dags_exists THEN Raise(tool.w, "Exit")
        ELSE IF ~tool.w.fs.jobs_exists THEN Raise(tool.w, "Exit")
        ELSE IF Truthy(EffectiveLoadSecrets(load_secrets_from_bws, conf.config))
             THEN IF sec.exc # None THEN sec
                  ELSE DeployAndRestart(sec.w, conf.config, sec.ret, env, o)
             ELSE DeployAndRestart(tool.w, conf.config, EmptyDict, env, o)

\* o: the outcomes of the external steps (aws_install, prompt, bws_install,
\* bws, fail, ps, failing)
deploy_jobs(w, load_secrets_from_bws, file, env, o) ==
    LET conf == _get_cached_config(file)
        tool == _ensure_tool_installed(w, "aws", o.aws_install)
        sec  == _load_secrets_from_bws(tool.w, file, o)
    IN  IF conf.exc # None THEN Raise(w, conf.exc)
        ELSE IF ~w.fs.dags_exists THEN Raise(w, "Exit")
        ELSE IF ~w.fs.jobs_exists THEN Raise(w, "Exit")
        ELSE IF tool.ret = PyFalse THEN Raise(tool.w, "Exit")
        ELSE IF Truthy(EffectiveLoadSecrets(load_secrets_from_bws, conf.config))
             THEN IF sec.exc # None THEN sec
                  ELSE DeployAndRestart(sec.w, conf.config, sec.ret, env, o)
             ELSE DeployAndRestart(tool.w, conf.config, EmptyDict, env, o)

RemoveJobsRestartFirst(w, file, env, o) ==
    LET conf == _get_cached_config(file)
        r    == RestartIfRunning(w, env, o.ps, o.failing)
    IN  IF conf.exc # None THEN Raise(w, conf.exc)
        ELSE IF ~w.fs.dags_exists THEN Raise(w, "Exit")
        ELSE IF ~w.fs.jobs_exists THEN Raise(w, "Exit")
        ELSE IF r.exc # None THEN r
        ELSE Return(_remove_job_and_dag_files(r.w), None)

remove_jobs(w, file, env, o) ==
    LET conf == _get_cached_config(file)
    IN  IF conf.exc # None THEN Raise(w, conf.exc)
        ELSE IF ~w.fs.dags_exists THEN Raise(w, "Exit")
        ELSE IF ~w.fs.jobs_exists THEN Raise(w, "Exit")
        ELSE RestartIfRunning(_remove_job_and_dag_files(w), env,
                              o.ps, o.failing)

-----------------------------------------------------------------------------
(* Profiles and _launch_services.                                          *)

DEFAULT_ENV == "dev"
LAUNCH_UP == "compose up"
NOT_AUTHENTICATED == "Docker was not authenticated with AWS ECR"

\* _get_env_file(env)
_get_env_file(env) == "conf/" \o env \o "/.env"

\* A comma-separated string is the sequence of the pieces between its
\* commas.  p.split(",") on the pieces the model uses:
SplitPiece(p) == IF p = "a,b" THEN <<"a", "b">> ELSE <<p>>

RECURSIVE SplitAll(_)
\* the pieces of the items, each split at its commas
SplitAll(items) ==
    IF items = <<>> THEN <<>>
    ELSE SplitPiece(Head(items)) \o SplitAll(Tail(items))

\* ",".join(items).split(","): joining no item gives the empty string,
\* which splits into one empty piece
JoinSplit(items) == IF items = <<>> THEN <<"">> ELSE SplitAll(items)

\* `if profiles`: the option was given and is not the empty string
Given(profiles) == profiles \notin {<<>>, <<"">>}
GetProfilesLoadsConfigFirst(profiles, file) ==
    LET c == _load_deployment_config(file)
    IN  IF c.exc # None THEN [ret |-> <<>>, exc |-> c.exc]
        ELSE IF Given(profiles)
             THEN [ret |-> [i \in DOMAIN profiles |-> Strip(profiles[i])],
                   exc |-> None]
        ELSE IF c.config.profiles.present
             THEN [ret |-> c.config.profiles.items, exc |-> None]
             ELSE [ret |-> <<"infra">>, exc |-> None]

\* _get_profiles: the explicit option (pieces stripped), else the
\* descriptor's list, else ['infra']; the result is the list that is joined
_get_profiles(profiles, file) ==
    IF Given(profiles)
    THEN [ret |-> [i \in DOMAIN profiles |-> Strip(profiles[i])], exc |-> None]
    ELSE LET c == _load_deployment_config(file)
         IN  IF c.exc # None THEN [ret |-> <<>>, exc |-> c.exc]
             ELSE IF c.config.profiles.present
                  THEN [ret |-> c.config.profiles.items, exc |-> None]
                  ELSE [ret |-> <<"infra">>, exc |-> None]

RECURSIVE ProfileArgs(_)
\* " ".join([f"--profile {p.strip()}" for p in pieces])
ProfileArgs(pieces) ==
    IF pieces = <<>> THEN ""
    ELSE IF Len(pieces) = 1 THEN "--profile " \o Strip(pieces[1])
    ELSE "--profile " \o Strip(pieces[1]) \o " " \o ProfileArgs(Tail(pieces))

_get_profiles_args(profiles, file) ==
    LET r == _get_profiles(profiles, file)
    IN  IF r.exc # None THEN [ret |-> "", exc |-> r.exc]
        ELSE [ret |-> ProfileArgs(JoinSplit(r.ret)), exc |-> None]

\* the compose command line of _launch_services, after "docker compose -f
\* docker-compose.yml"
UpCommand(env, profiles_args, detach) ==
    "--env-file " \o _get_env_file(env) \o " " \o profiles_args \o " up"
        \o (IF detach THEN " -d" ELSE "")
UpOsEnvironFirst(w, login, bws_secrets, skip_login, profiles, detach, env, file, o) ==
    LET args  == _get_profiles_args(profiles, file)
        w1    == IF Truthy(skip_login) THEN w
                 ELSE IF Truthy(login.ret) THEN login.w
                 ELSE Emit(login.w, "log", NOT_AUTHENTICATED)
        w2    == EmitEnv(w1, LAUNCH_UP, UpCommand(env, args.ret, detach),
                         Merge(Merge(bws_secrets, OsEnviron(w1)),
                               [k \in {"ENV"} |-> env]))
    IN  IF ~Truthy(skip_login) /\ login.exc # None THEN login
        ELSE IF args.exc # None THEN Raise(w1, args.exc)
        ELSE IF o.up = "failed" THEN Raise(w2, "UnexpectedExit")
        ELSE Return(w2, None)

\* _launch_services from the login's result on; login is the result of
\* _aws_ecr_login (not looked at when the login is skipped)
UpAfterLogin(w, login, bws_secrets, skip_login, profiles, detach, env, file, o) ==
    LET args  == _get_profiles_args(profiles, file)
        w1    == IF Truthy(skip_login) THEN w
                 ELSE IF Truthy(login.ret) THEN login.w
                 ELSE Emit(login.w, "log", NOT_AUTHENTICATED)
        w2    == EmitEnv(w1, LAUNCH_UP, UpCommand(env, args.ret, detach),
                         Merge(Merge(OsEnviron(w1), bws_secrets),
                               [k \in {"ENV"} |-> env]))
    IN  IF ~Truthy(skip_login) /\ login.exc # None THEN login
        ELSE IF args.exc # None THEN Raise(w1, args.exc)
        ELSE IF o.up = "failed" THEN Raise(w2, "UnexpectedExit")
        ELSE Return(w2, None)

LaunchAbortOnLoginFailure(w, bws_secrets, skip_login, profiles, detach, env, file, o) ==
    LET login == _aws_ecr_login(w, bws_secrets, file, o.aws_install, o.login)
        args  == _get_profiles_args(profiles, file)
        w1    == IF Truthy(skip_login) THEN w
                 ELSE IF Truthy(login.ret) THEN login.w
                 ELSE Emit(login.w, "log", NOT_AUTHENTICATED)
        w2    == EmitEnv(w1, LAUNCH_UP, UpCommand(env, args.ret, detach),
                         Merge(Merge(OsEnviron(w1), bws_secrets),
                               [k \in {"ENV"} |-> env]))
    IN  IF ~Truthy(skip_login) /\ login.exc # None THEN login
        ELSE IF ~Truthy(skip_login) /\ ~Truthy(login.ret)
             THEN Raise(w1, "Exit")
        ELSE IF args.exc # None THEN Raise(w1, args.exc)
        ELSE IF o.up = "failed" THEN Raise(w2, "UnexpectedExit")
        ELSE Return(w2, None)

\* _launch_services from `if not skip_login` on, with the secrets loaded
LoginAndUp(w, bws_secrets, skip_login, profiles, detach, env, file, o) ==
    UpAfterLogin(w, _aws_ecr_login(w, bws_secrets, file, o.aws_install, o.login),
                 bws_secrets, skip_login, profiles, detach, env, file, o)

\* o: the outcomes of the external steps (prompt, bws_install, bws,
\* aws_install, login, up)
_launch_services(w, profiles, detach, env, load_secrets_from_bws, skip_ecr_login, file, o) ==
    LET conf == _load_deployment_config(file)
        skip == Or(skip_ecr_login, GetD(conf.config.data, "skip_ecr_login", PyFalse))
        sec  == _load_secrets_from_bws(w, file, o)
    IN  IF conf.exc # None THEN Raise(w, conf.exc)
        ELSE IF Truthy(EffectiveLoadSecrets(load_secrets_from_bws, conf.config))
             THEN IF sec.exc # None THEN sec
                  ELSE LoginAndUp(sec.w, sec.ret, skip, profiles, detach,
                                  env, file, o)
             ELSE LoginAndUp(w, EmptyDict, skip, profiles, detach, env, file, o)

-----------------------------------------------------------------------------
(* The docker tasks down, up and restart.                                  *)

PROFILES_DOWN == "compose down"

\* str.lower() on the strings the model uses
Lower(a) == IF a = "Y" THEN "y" ELSE a

\* what the operator answers to a [y/N] question, or closes the input
ConfirmOutcomes == {"y", "Y", "n", "", "EOFError"}
ConfirmActionDefaultYes(w, message, yes, answer) ==
    IF Truthy(yes) THEN Return(w, PyTrue)
    ELSE LET w1 == Emit(w, "input", message)
         IN  IF answer = "EOFError" THEN Raise(w1, "EOFError")
             ELSE IF Lower(answer) = "n" THEN Return(w1, PyFalse)
             ELSE Return(w1, PyTrue)

\* _confirm_action(message, yes); answer: what the operator does if asked
_confirm_action(w, message, yes, answer) ==
    IF Truthy(yes) THEN Return(w, PyTrue)
    ELSE LET w1 == Emit(w, "input", message)
         IN  IF answer = "EOFError" THEN Raise(w1, "EOFError")
             ELSE IF Lower(answer) = "y" THEN Return(w1, PyTrue)
             ELSE Return(w1, PyFalse)

\* the compose command line of down, after "docker compose -f
\* docker-compose.yml"
DownCommand(env, profiles_args, volumes, orphans) ==
    "--env-file " \o _get_env_file(env) \o " " \o profiles_args \o " down"
        \o (IF Truthy(volumes) THEN " --volumes" ELSE "")
        \o (IF Truthy(orphans) THEN " --remove-orphans" ELSE "")

\* o.confirm: the three answers; o.down: "ok" or "failed"
down(w, profiles, yes, env, file, o) ==
    LET stop    == _confirm_action(w, "Are you sure you want to stop all containers?",
                                   yes, o.confirm[1])
        volumes == _confirm_action(stop.w, "Do you also want to remove volumes?",
                                   yes, o.confirm[2])
        orphans == _confirm_action(volumes.w,
                                   "Do you want to remove orphan containers?",
                                   yes, o.confirm[3])
        args    == _get_profiles_args(profiles, file)
        w1      == Emit(orphans.w, PROFILES_DOWN,
                        DownCommand(env, args.ret, volumes.ret, orphans.ret))
    IN  IF stop.exc # None THEN stop
        ELSE IF ~Truthy(stop.ret) THEN Return(stop.w, None)
        ELSE IF volumes.exc # None THEN volumes
        ELSE IF orphans.exc # None THEN orphans
        ELSE IF args.exc # None THEN Raise(orphans.w, args.exc)
        ELSE IF o.down = "failed" THEN Raise(w1, "UnexpectedExit")
        ELSE Return(w1, None)

up(w, profiles, env, load_secrets_from_bws, skip_ecr_login, file, o) ==
    _launch_services(w, profiles, FALSE, env, load_secrets_from_bws,
                     skip_ecr_login, file, o)

\* the parameters down declares after ctx, and the keyword arguments
\* restart passes to it
DownParameters == {"profiles", "yes", "env", "deployment_file"}
RestartDownKeywords ==
    {"profiles", "yes", "env", "load_secrets_from_bws", "skip_ecr_login",
     "deployment_file"}

\* restart: down(...) then up(...); a keyword argument the callee does not
\* declare makes the call raise TypeError before the callee's body runs
restart(w, profiles, yes, env, load_secrets_from_bws, skip_ecr_login, file, o) ==
    LET stopped == down(w, profiles, yes, env, file, o)
    IN  IF ~(RestartDownKeywords \subseteq DownParameters)
        THEN Raise(w, "TypeError")
        ELSE IF stopped.exc # None THEN stopped
        ELSE up(stopped.w, profiles, env, load_secrets_from_bws,
                skip_ecr_login, file, o)

-----------------------------------------------------------------------------
(* The docker tasks ps and build.                                          *)

PROFILES_PS == "compose ps"
PROFILES_BUILD == "compose build"

\* the compose command line of ps and build, after "docker compose -f
\* docker-compose.yml"
ComposeCommand(env, profiles_args, verb) ==
    "--env-file " \o _get_env_file(env) \o " " \o profiles_args \o " " \o verb

\* ctx.run of ps and build; outcome: "ok" or "failed"
RunCompose(w, kind, verb, profiles, env, file, outcome) ==
    LET args == _get_profiles_args(profiles, file)
        w1   == Emit(w, kind, ComposeCommand(env, args.ret, verb))
    IN  IF args.exc # None THEN Raise(w, args.exc)
        ELSE IF outcome = "failed" THEN Raise(w1, "UnexpectedExit")
        ELSE Return(w1, None)

ps(w, profiles, env, file, outcome) ==
    RunCompose(w, PROFILES_PS, "ps", profiles, env, file, outcome)

build(w, profiles, env, file, outcome) ==
    RunCompose(w, PROFILES_BUILD, "build", profiles, env, file, outcome)

-----------------------------------------------------------------------------
(* The docker tasks remove_network and clean_environment.                  *)

NETWORK_LS == "docker network ls | grep microservices"
NETWORK_RM == "docker network rm microservices"
SYSTEM_PRUNE == "docker system prune -f"
VOLUME_PRUNE == "docker volume prune -f"
NETWORK_PRUNE == "docker network prune -f"

\* ctx.run(command, pty=True): a failing command raises UnexpectedExit
Run(w, kind, failed) ==
    IF failed THEN Raise(Emit(w, kind, "failed"), "UnexpectedExit")
    ELSE Return(Emit(w, kind, "ok"), None)

\* o.net: the answer to the confirmation; o.network: "exists" or "absent",
\* the result of the listing; o.fail: the command that fails, if any
remove_network(w, yes, o) ==
    LET sure == _confirm_action(w, "Are you sure you want to remove the Docker network?",
                                yes, o.net)
        ls   == Emit(sure.w, NETWORK_LS, o.network)
        rm   == Run(ls, NETWORK_RM, o.fail = NETWORK_RM)
    IN  IF sure.exc # None THEN sure
        ELSE IF ~Truthy(sure.ret) THEN Return(sure.w, None)
        \* `except Exception`: a failing removal is logged, not raised
        ELSE IF o.network = "exists" THEN Return(rm.w, None)
        ELSE Return(ls, None)

\* the steps of clean_environment, each after its own confirmation
CleanStep(w, message, yes, answer, kind, o, env, file) ==
    LET sure == _confirm_action(w, message, yes, answer)
    IN  IF sure.exc # None THEN sure
        ELSE IF ~Truthy(sure.ret) THEN Return(sure.w, None)
        ELSE IF kind = PROFILES_DOWN
             THEN down(sure.w, <<>>, yes, env, file, o)
        ELSE IF kind = NETWORK_RM THEN remove_network(sure.w, yes, o)
        ELSE Run(sure.w, kind, o.fail = kind)

\* o.clean: the answers to the five confirmations of clean_environment;
\* o.confirm, o.down: the inputs of down; o.net, o.network: those of
\* remove_network
clean_environment(w, yes, env, file, o) ==
    LET s1 == CleanStep(w,
                "Do you want to stop and remove all services (docker compose down)?",
                yes, o.clean[1], PROFILES_DOWN, o, env, file)
        s2 == CleanStep(s1.w, "Do you want to remove the Docker network?",
                yes, o.clean[2], NETWORK_RM, o, env, file)
        s3 == CleanStep(s2.w,
                "Do you want to remove unused Docker data (docker system prune)?",
                yes, o.clean[3], SYSTEM_PRUNE, o, env, file)
        s4 == CleanStep(s3.w,
                "Do you want to remove unused Docker volumes (docker volume prune)?",
                yes, o.clean[4], VOLUME_PRUNE, o, env, file)
        s5 == CleanStep(s4.w,
                "Do you want to remove unused Docker networks (docker network prune)?",
                yes, o.clean[5], NETWORK_PRUNE, o, env, file)
    IN  IF s1.exc # None THEN s1
        ELSE IF s2.exc # None THEN s2
        ELSE IF s3.exc # None THEN s3
        ELSE IF s4.exc # None THEN s4
        ELSE s5

-----------------------------------------------------------------------------
(* Processes.  Each invocation of the CLI is a new process: it inherits    *)
(* the shell's environment and PATH and finds the file system as the       *)
(* previous invocation left it.                                            *)

\* values an environment variable can hold: unset, set but empty, set
EnvVals == {None, "", "env"}

Environs == [EnvKeys -> EnvVals]

INHERITED_PATH == <<SYSTEM_BIN_PATH>>

\* dags_path and jobs_path exist and are empty, no workspace, no downloaded
\* archive and no temporary directory is left over
NoFs == [dags_exists |-> TRUE, jobs_exists |-> TRUE,
         dags_files |-> {}, jobs_files |-> {},
         ws_exists |-> FALSE, ws_dirs |-> {},
         bws_zip |-> FALSE, aws_temp |-> FALSE]

Idle ==
    /\ call = [op |-> "none"]
    /\ ret = None
    /\ exc = None
    /\ cmds = <<>>
    /\ envs = <<>>

\* no entry point has run yet in this process
Fresh == call.op = "none"

\* the world and the result of an entry point become the state
Commit(r) ==
    /\ environ' = r.w.environ
    /\ path' = r.w.path
    /\ sys_bin' = r.w.sys_bin
    /\ local_bin' = r.w.local_bin
    /\ fs' = r.w.fs
    /\ cmds' = r.w.cmds
    /\ envs' = r.w.envs
    /\ ret' = r.ret
    /\ exc' = r.exc

\* the process ends; the next invocation starts
NewProcess ==
    /\ ~Fresh
    /\ call' = [op |-> "none"]
    /\ ret' = None
    /\ exc' = None
    /\ cmds' = <<>>
    /\ envs' = <<>>
    /\ path' = INHERITED_PATH
    /\ UNCHANGED <<environ, sys_bin, local_bin, fs>>

-----------------------------------------------------------------------------
(* Specification of the three-tier lookup.                                 *)

SecretVals == {"", "bws"}
Defaults == {None, "", "dflt"}
SecretArgs == {NoDict} \cup {Some(d) : d \in Dicts(AwsKeys, SecretVals)}

InitLookup ==
    /\ environ \in {e \in Environs : e[BWS_TOKEN_VARIABLE_NAME] = None}
    /\ path = INHERITED_PATH
    /\ sys_bin = {}
    /\ local_bin = {}
    /\ fs = NoFs
    /\ Idle

GetConfigFromSources ==
    /\ Fresh
    /\ \E key \in AwsKeys, s \in SecretArgs, dflt \in Defaults :
        /\ call' = [op |-> "_get_config_from_sources", key |-> key,
                    bws_secrets |-> s, default |-> dflt]
        /\ ret' = _get_config_from_sources(environ, key, s, dflt)
        /\ exc' = None
        /\ cmds' = <<>>
        /\ UNCHANGED <<environ, path, sys_bin, local_bin, fs, envs>>

NextLookup == GetConfigFromSources \/ NewProcess

SpecLookup == InitLookup /\ [][NextLookup]_vars

IsLookup == call.op = "_get_config_from_sources"
LookupEnv == EnvGet(environ, call.key)
LookupSecret == Get(DictOrEmpty(call.bws_secrets), call.key)

\* C1 (as stated): whenever the environment variable named key is set, the
\* lookup returns its value, whatever the secret map and the default hold.
C1_EnvSetAlwaysWins ==
    (IsLookup /\ LookupEnv # None) => ret = LookupEnv

\* C1 (amended): whenever the environment variable named key is set to a
\* non-empty value, the lookup returns it, whatever the secret map and the
\* default hold.
C1_NonEmptyEnvWins ==
    (IsLookup /\ Truthy(LookupEnv)) => ret = LookupEnv

C1_Witness ==
    /\ IsLookup
    /\ Truthy(LookupEnv)
    /\ Truthy(LookupSecret)
    /\ Truthy(call.default)
    /\ ret = LookupEnv

\* C2: the lookup is first-non-empty-wins in the order environment, secret
\* map, default: without a non-empty environment value it returns the secret
\* map's non-empty value; with neither it returns the default; it returns
\* None only when all three are empty or missing.
C2_FirstNonEmptyWins ==
    IsLookup =>
        /\ (~Truthy(LookupEnv) /\ Truthy(LookupSecret)) => ret = LookupSecret
        /\ (~Truthy(LookupEnv) /\ ~Truthy(LookupSecret)) => ret = call.default
        /\ ret = None =>
              /\ ~Truthy(LookupEnv)
              /\ ~Truthy(LookupSecret)
              /\ ~Truthy(call.default)

C2_Witness ==
    /\ IsLookup
    /\ LookupEnv = ""
    /\ Truthy(LookupSecret)
    /\ Truthy(call.default)
    /\ ret = LookupSecret

-----------------------------------------------------------------------------
(* Specification of the cloud credential resolver: each process calls      *)
(* _aws_ecr_login or _get_codeartifact_token once.                         *)

CredConfigKeys == {"aws_account_id", "aws_region", "codeartifact_domain"}
CredConfigVals == {"", "cfg"}
CredFiles ==
    {MissingFile, InvalidFile}
    \cup {File(Config(d, NoJobs, NoProfiles)) :
            d \in Dicts(CredConfigKeys, CredConfigVals)}

\* secret maps as _load_secrets_from_bws builds them: non-empty values only
LoadedSecretVals == {"bws"}
CredSecrets == Dicts(AwsKeys, LoadedSecretVals)

InitCreds ==
    /\ environ \in {e \in Environs : /\ e[BWS_TOKEN_VARIABLE_NAME] = None
                                    /\ e[AWS_TOKEN_VARIABLE_NAME] # ""}
    /\ path = INHERITED_PATH
    /\ sys_bin \in SUBSET {"aws"}
    /\ local_bin = {}
    /\ fs = NoFs
    /\ Idle

CredCall(op, s, file) ==
    [op |-> op, bws_secrets |-> s, file |-> file,
     aws_found |-> _find_tool(World, "aws") # None]

AwsEcrLogin ==
    /\ Fresh
    /\ \E s \in CredSecrets, file \in CredFiles,
          io \in InstallOutcomes, lo \in LoginOutcomes :
        /\ call' = CredCall("_aws_ecr_login", s, file)
        /\ Commit(_aws_ecr_login(World, s, file, io, lo))

GetCodeartifactToken ==
    /\ Fresh
    /\ \E s \in CredSecrets, file \in CredFiles,
          io \in InstallOutcomes, to \in TokenOutcomes :
        /\ call' = CredCall("_get_codeartifact_token", s, file)
        /\ Commit(_get_codeartifact_token(World, s, file, io, to))

NextCreds == AwsEcrLogin \/ GetCodeartifactToken \/ NewProcess

SpecCreds == InitCreds /\ [][NextCreds]_vars

IsEcrLogin == call.op = "_aws_ecr_login"
IsToken == call.op = "_get_codeartifact_token"
IsCred == IsEcrLogin \/ IsToken

\* what the call's descriptor and resolution inputs were
FileOk == call.file.state = "ok"
Configured(key) == FileOk /\ Truthy(Get(call.file.config.data, key))
LacksAccountId == FileOk /\ ~Truthy(Get(call.file.config.data, "aws_account_id"))
Resolved(key) ==
    Truthy(_get_config_from_sources(environ, key, Some(call.bws_secrets), None))
CredentialsResolved ==
    Resolved(AWS_KEY_ID_VARIABLE_NAME) /\ Resolved(AWS_SECRET_VARIABLE_NAME)

\* the aws tool was found, or installed by this call
ToolEnsured == call.aws_found \/ "aws" \in local_bin

NoNetwork == Kinds(cmds) \cap NetworkKinds = {}
NoAwsCall == Kinds(cmds) \cap {ECR_LOGIN, CODEARTIFACT_TOKEN} = {}

\* C3 (as stated): with a descriptor lacking aws_account_id, _aws_ecr_login
\* and _get_codeartifact_token fail with Exit and no network-touching action
\* (tool download, aws CLI call, docker login) was attempted before.
C3_ExitBeforeAnyNetwork ==
    (IsCred /\ LacksAccountId) => (exc = "Exit" /\ NoNetwork)

\* C3 (amended): with a descriptor lacking aws_account_id, both functions
\* fail with Exit and without any network-touching action when the aws tool
\* is resolvable; when it is not, they first try to download and install it,
\* then fail with Exit if the tool got installed, and return False / None
\* without Exit if it did not; in no case is an aws CLI call or a docker
\* login issued.
C3_ExitBeforeAwsCall ==
    (IsCred /\ LacksAccountId) =>
        /\ NoAwsCall
        /\ call.aws_found => (exc = "Exit" /\ NoNetwork)
        /\ ~call.aws_found =>
              /\ cmds # <<>> /\ cmds[1] = <<"curl", "aws">>
              /\ ToolEnsured => exc = "Exit"
              /\ ~ToolEnsured =>
                    (exc = None /\ ret = IF IsEcrLogin THEN PyFalse ELSE None)

C3_Witness ==
    /\ IsEcrLogin
    /\ LacksAccountId
    /\ Configured("aws_region")
    /\ CredentialsResolved
    /\ call.aws_found
    /\ exc = "Exit"
    /\ cmds = <<>>

\* C8: _get_codeartifact_token has no soft-fail path: every call returns a
\* non-empty token or terminates with Exit; it never returns None.
C8_TokenOrExit ==
    IsToken => (exc = "Exit" \/ (exc = None /\ Truthy(ret)))

\* the login pipeline was run and this is how it ended
LoginIssued == Count(cmds, ECR_LOGIN) = 1
LoginOutcome == cmds[Len(cmds)][2]

\* C11: _aws_ecr_login returns True only if the registry login command was
\* successful, and returns False otherwise.
C11_TrueOnlyIfLoginSucceeded ==
    (IsEcrLogin /\ exc = None) =>
        (ret = PyTrue <=> (LoginIssued /\ LoginOutcome = "ok"))

-----------------------------------------------------------------------------
(* Specification of the secret provider: each process calls                *)
(* _load_secrets_from_bws once.                                            *)

\* longest list of secrets the listing command prints
MaxSecrets == 2

SecretKeyVals == {None, AWS_KEY_ID_VARIABLE_NAME, AWS_SECRET_VARIABLE_NAME}
SecretValueVals == {None, "", "bws", "bws2"}
JsonElements ==
    {Scalar} \cup {SecretRecord(k, v) : k \in SecretKeyVals,
                                        v \in SecretValueVals}

SeqsUpTo(S, n) == UNION {[1..m -> S] : m \in 0..n}

BwsStdouts ==
    {Json("invalid", <<>>), Json("null", <<>>), Json("number", <<>>)}
    \cup {Json("string", s) : s \in SeqsUpTo({Scalar}, 1)}
    \cup {Json("object", s) : s \in SeqsUpTo({Scalar}, 1)}
    \cup {Json("list", s) : s \in SeqsUpTo(JsonElements, MaxSecrets)}

\* the command's result: a non-zero exit prints its error on stderr and
\* leaves the standard output empty
BwsResults ==
    {[ok |-> TRUE, stdout |-> j] : j \in BwsStdouts}
    \cup {[ok |-> FALSE, stdout |-> Json("invalid", <<>>)]}

SecretFiles ==
    {MissingFile, InvalidFile}
    \cup {File(Config(d, NoJobs, NoProfiles)) :
            d \in Dicts({"bws_access_token"}, {"", "cfg"})}

InitSecrets ==
    /\ environ \in {e \in Environs : \A k \in AwsKeys : e[k] = None}
    /\ path = INHERITED_PATH
    /\ sys_bin \in SUBSET {"bws"}
    /\ local_bin = {}
    /\ fs = NoFs
    /\ Idle

LoadSecretsFromBws ==
    /\ Fresh
    /\ \E file \in SecretFiles, p \in PromptOutcomes,
          io \in {io \in InstallOutcomes : io.step # "install"}, b \in BwsResults :
        /\ call' = [op |-> "_load_secrets_from_bws", file |-> file, bws |-> b,
                    bws_found |-> _find_tool(World, "bws") # None]
        /\ Commit(_load_secrets_from_bws(World, file,
                     [prompt |-> p, bws_install |-> io, bws |-> b]))

NextSecrets == LoadSecretsFromBws \/ NewProcess

SpecSecrets == InitSecrets /\ [][NextSecrets]_vars

IsLoadSecrets == call.op = "_load_secrets_from_bws"
ListingIssued == Count(cmds, BWS_LIST) > 0

\* C9: _load_secrets_from_bws never raises to its caller: for every outcome
\* of the secret-listing command (non-zero exit, empty output, output that is
\* not JSON, JSON that is not a list of {key, value} records) it returns a
\* mapping, the empty one on invocation failure or unparsable output.
C9_NeverRaises ==
    (IsLoadSecrets /\ ListingIssued) =>
        /\ exc = None
        /\ (~call.bws.ok \/ call.bws.stdout.t = "invalid") => ret = EmptyDict

-----------------------------------------------------------------------------
(* Specification of the spark tasks: each process runs deploy_jobs or      *)
(* remove_jobs once, on the file system the previous one left.             *)

\* most jobs in airflow_dags, most lines the running-container query prints
MaxJobs == 2
MaxLines == 2

PkgName(i) == "pkg" \o ToString(i)
Versions == {None, "1.0"}

\* the job maps: pkg1 .. pkgn in the descriptor's order, each with or
\* without a version
JobSeqs ==
    UNION {{[i \in 1..n |-> Job(PkgName(i), v[i])] : v \in [1..n -> Versions]}
           : n \in 0..MaxJobs}
JobMaps == {NoJobs} \cup {[present |-> TRUE, items |-> s] : s \in JobSeqs}

JobFiles ==
    {MissingFile, InvalidFile}
    \cup {File(Config(d, j, NoProfiles)) :
            d \in Dicts({"load_secrets_from_bws"}, {PyTrue, PyFalse}),
            j \in JobMaps}

LoadArgs == {None, PyTrue, PyFalse}

\* the listing command fails, or prints one secret
JobBwsResults ==
    {[ok |-> FALSE, stdout |-> Json("invalid", <<>>)],
     [ok |-> TRUE,
      stdout |-> Json("list", <<SecretRecord(AWS_KEY_ID_VARIABLE_NAME, "bws")>>)]}

OutputLines == {"c1", " "}
PsResults ==
    {[ok |-> o, stdout |-> l] : o \in BOOLEAN, l \in SeqsUpTo(OutputLines, MaxLines)}

\* the outcomes a call can meet: a stage that is not reached has none
NoBwsResult == [ok |-> FALSE, stdout |-> Json("invalid", <<>>)]
NoPsResult == [ok |-> FALSE, stdout |-> <<>>]
ReachesJobs(file) ==
    file.state = "ok" /\ fs.dags_exists /\ fs.jobs_exists
WantsSecrets(load, file) ==
    ReachesJobs(file) /\ Truthy(EffectiveLoadSecrets(load, file.config))
InstallChoices(tool_name) ==
    IF _find_tool(World, tool_name) # None THEN {InstallOk} ELSE InstallOutcomes
BwsChoices(load, file) ==
    IF WantsSecrets(load, file) THEN JobBwsResults ELSE {NoBwsResult}
FailChoices(file) ==
    IF ReachesJobs(file)
    THEN {NoFailure} \cup {<<i, Steps[k]>> : i \in DOMAIN file.config.jobs.items,
                                             k \in DOMAIN Steps}
    ELSE {NoFailure}
PsChoices(file, f) ==
    IF ReachesJobs(file) /\ f = NoFailure THEN PsResults ELSE {NoPsResult}
FailingChoices(query) ==
    IF AnyRunning(query.stdout) THEN 0..Len(RestartCommands) ELSE {0}

Init ==
    /\ environ = [k \in EnvKeys |->
                    IF k = BWS_TOKEN_VARIABLE_NAME THEN "env" ELSE None]
    /\ path = INHERITED_PATH
    /\ sys_bin \in {{"bws"}, {"aws", "bws"}}
    /\ local_bin = {}
    /\ fs \in {[NoFs EXCEPT !.dags_exists = d, !.jobs_exists = j] :
                 d \in BOOLEAN, j \in BOOLEAN}
    /\ Idle

TaskCall(op, load, file, f, query) ==
    [op |-> op, load_secrets_from_bws |-> load, file |-> file, fail |-> f,
     ps |-> query,
     fs_before |-> fs, local_bin_before |-> local_bin,
     aws_found |-> _find_tool(World, "aws") # None]

DeployJobs ==
    /\ Fresh
    /\ \E load \in LoadArgs, file \in JobFiles :
       \E ai \in InstallChoices("aws"), b \in BwsChoices(load, file),
          f \in FailChoices(file) :
       \E query \in PsChoices(file, f) :
       \E failing \in FailingChoices(query) :
        /\ call' = TaskCall("deploy_jobs", load, file, f, query)
        /\ Commit(deploy_jobs(World, load, file, "dev",
                    [aws_install |-> ai, prompt |-> "", bws_install |-> InstallOk,
                     bws |-> b, fail |-> f, ps |-> query, failing |-> failing]))

RemoveJobs ==
    /\ Fresh
    /\ \E file \in JobFiles :
       \E query \in PsChoices(file, NoFailure) :
       \E failing \in FailingChoices(query) :
        /\ call' = TaskCall("remove_jobs", None, file, NoFailure, query)
        /\ Commit(remove_jobs(World, file, "dev",
                    [ps |-> query, failing |-> failing]))

Next == DeployJobs \/ RemoveJobs \/ NewProcess

Spec == Init /\ [][Next]_vars

IsDeploy == call.op = "deploy_jobs"
IsRemove == call.op = "remove_jobs"
IsTask == IsDeploy \/ IsRemove

CallJobs == call.file.config.jobs
JobMapEmpty == FileOk /\ (~CallJobs.present \/ CallJobs.items = <<>>)
PathsExisted == call.fs_before.dags_exists /\ call.fs_before.jobs_exists

StepKinds == Range(Steps)
StepEvents == {i \in DOMAIN cmds : cmds[i][1] \in StepKinds}
ComposeEvents ==
    {i \in DOMAIN cmds : cmds[i][1] \in {COMPOSE_PS, COMPOSE_DOWN, COMPOSE_UP}}

\* the file system apart from ~/.local/bin/bws.zip and ~/aws_temp, which an
\* installer leaves behind when its removal fails
DeploymentFiles(f) == [f EXCEPT !.bws_zip = FALSE, !.aws_temp = FALSE]

\* C4 (as stated): with an empty or missing job map, deploy_jobs performs no
\* fetch/extract/render/place and still issues the running-container query.
C4_EmptyJobMapStillQueries ==
    (IsDeploy /\ JobMapEmpty /\ exc = None) =>
        (StepEvents = {} /\ Count(cmds, COMPOSE_PS) = 1)

\* C4 (amended): with an empty or missing job map, deploy_jobs performs no
\* fetch/extract/render/place and returns without creating the workspace and
\* without the service-restart check: no running-container query and no
\* stop/start command is issued.
C4_EmptyJobMapReturnsEarly ==
    (IsDeploy /\ JobMapEmpty) =>
        /\ StepEvents = {}
        /\ ComposeEvents = {}
        /\ Count(cmds, "mkdir") = 0
        /\ DeploymentFiles(fs) = DeploymentFiles(call.fs_before)

C4_Witness ==
    /\ IsDeploy
    /\ FileOk /\ CallJobs.present /\ CallJobs.items = <<>>
    /\ PathsExisted
    /\ exc = None
    /\ Count(cmds, BWS_LIST) = 1
    /\ ComposeEvents = {}

\* the stop/start commands issued, in order
IsRestartCommand(ev) == ev[1] \in {COMPOSE_DOWN, COMPOSE_UP}
Restarts == SelectSeq(cmds, IsRestartCommand)
QueryReport == cmds[CHOOSE i \in DOMAIN cmds : cmds[i][1] = COMPOSE_PS][2]
Queried == Count(cmds, COMPOSE_PS) > 0
Issued(kind, service) ==
    Cardinality({i \in DOMAIN cmds : cmds[i] = <<kind, service>>})

\* C5 (as stated): when the query returns no running container, no compose
\* stop/start is issued; when it returns at least one, exactly one stop and
\* one start are issued for each declared service.
C5_OneStopOneStartEach ==
    (IsTask /\ Queried) =>
        /\ QueryReport # "running" => Restarts = <<>>
        /\ QueryReport = "running" =>
              \A i \in DOMAIN Services :
                  /\ Issued(COMPOSE_DOWN, Services[i]) = 1
                  /\ Issued(COMPOSE_UP, Services[i]) = 1

\* C5 (amended): when the query returns no running container, no compose
\* stop/start is issued; when it returns at least one, the task issues stop
\* apache_livy, start apache_livy, stop airflow-scheduler, start
\* airflow-scheduler, each at most once, up to the first of them that fails:
\* exactly one stop and one start for each service if none fails, and the
\* task aborts with the later ones unissued otherwise.
C5_RestartUntilFailure ==
    (IsTask /\ Queried) =>
        /\ QueryReport # "running" => Restarts = <<>>
        /\ QueryReport = "running" =>
              /\ Len(Restarts) \in 1..Len(RestartCommands)
              /\ Restarts = SubSeq(RestartCommands, 1, Len(Restarts))
              /\ exc = None => Restarts = RestartCommands
              /\ exc # None =>
                    /\ exc = "UnexpectedExit"
                    /\ cmds[Len(cmds)] = Restarts[Len(Restarts)]

C5_Witness ==
    /\ IsDeploy
    /\ Queried
    /\ QueryReport = "running"
    /\ exc = None
    /\ Restarts = RestartCommands

\* C6: if dags_path or jobs_path does not exist, deploy_jobs and remove_jobs
\* exit non-zero before any tool installation, secret retrieval, download,
\* file placement or deletion, or compose command; no job is touched.
C6_MissingPathAbortsFirst ==
    (IsTask /\ ~PathsExisted) =>
        /\ exc # None
        /\ FileOk => exc = "Exit"
        /\ cmds = <<>>
        /\ fs = call.fs_before
        /\ local_bin = call.local_bin_before

C6_Witness ==
    /\ IsDeploy
    /\ FileOk /\ CallJobs.items # <<>>
    /\ call.fs_before.dags_exists /\ ~call.fs_before.jobs_exists
    /\ ~call.aws_found
    /\ exc = "Exit"
    /\ cmds = <<>>

\* C7: with a non-empty job map, the workspace is removed whatever way the
\* per-job loop ends: it no longer exists when deploy_jobs ends.
C7_WorkspaceAlwaysRemoved ==
    (IsDeploy /\ Count(cmds, "mkdir") > 0) => ~fs.ws_exists

\* the steps run, in order
IsStep(ev) == ev[1] \in StepKinds
StepTrace == SelectSeq(cmds, IsStep)

RECURSIVE StepPlan(_)
\* fetch, extract, render, place of each job, job after job
StepPlan(items) ==
    IF items = <<>> THEN <<>>
    ELSE [k \in DOMAIN Steps |-> <<Steps[k], Head(items).name>>]
            \o StepPlan(Tail(items))

\* C14: deploy_jobs processes the jobs strictly sequentially, each through
\* fetch, extract, render, place in that order: the steps run are the first
\* steps of the plan "all four steps of job 1, then of job 2, ...", and
\* all of it when the task ends normally with a non-empty job map.
C14_StepsInPlanOrder ==
    IsDeploy =>
        /\ Len(StepTrace) <= Len(StepPlan(CallJobs.items))
        /\ StepTrace = SubSeq(StepPlan(CallJobs.items), 1, Len(StepTrace))
        /\ (exc = None /\ PathsExisted /\ FileOk) =>
              StepTrace = StepPlan(CallJobs.items)

C14_Witness ==
    /\ IsDeploy
    /\ Len(CallJobs.items) = 2
    /\ exc = None
    /\ StepTrace = StepPlan(CallJobs.items)
    /\ Len(StepTrace) = 8

\* the step the call was set to fail at, and whether the call got to it
FailedStep == <<call.fail[2], CallJobs.items[call.fail[1]].name>>
StepFailed ==
    /\ call.fail # NoFailure
    /\ \E i \in DOMAIN cmds : cmds[i] = FailedStep

\* C15: if fetch, extract, render or place fails for some job, the failure
\* leaves deploy_jobs as an exception: the failing step is the last thing
\* the task does, so no step of a later job is run and no running-container
\* query or compose stop/start is issued.
C15_FailureAbortsRun ==
    (IsDeploy /\ StepFailed) =>
        /\ exc = "Exception"
        /\ cmds[Len(cmds)] = FailedStep
        /\ Count(cmds, FailedStep[1]) = call.fail[1]
        /\ ComposeEvents = {}

C15_Witness ==
    /\ IsDeploy
    /\ Len(CallJobs.items) = 2
    /\ call.fail = <<1, "render">>
    /\ exc = "Exception"
    /\ cmds[Len(cmds)] = <<"render", PkgName(1)>>
    /\ ComposeEvents = {}

-----------------------------------------------------------------------------
(* Specification of successive spark tasks: as above, and each process     *)
(* knows which task the previous process ran, on which descriptor and on   *)
(* which file system.                                                      *)

\* job maps whose jobs all have a version; secrets are not loaded
RoundTripFiles ==
    {MissingFile}
    \cup {File(Config([load_secrets_from_bws |-> PyFalse],
                      [present |-> TRUE,
                       items |-> [i \in 1..n |-> Job(PkgName(i), "1.0")]],
                      NoProfiles)) : n \in 0..MaxJobs}

RoundTripPs == {[ok |-> TRUE, stdout |-> <<>>], [ok |-> TRUE, stdout |-> <<"c1">>]}

\* what a process remembers of a call
LastCall(c) == [op |-> c.op, file |-> c.file, fs_before |-> c.fs_before]

InitRoundTrip ==
    /\ environ = [k \in EnvKeys |->
                    IF k = BWS_TOKEN_VARIABLE_NAME THEN "env" ELSE None]
    /\ path = INHERITED_PATH
    /\ sys_bin = {"aws", "bws"}
    /\ local_bin = {}
    /\ fs \in {[NoFs EXCEPT !.dags_exists = d, !.jobs_exists = j] :
                 d \in BOOLEAN, j \in BOOLEAN}
    /\ call = [op |-> "none",
               prev |-> [op |-> "none", file |-> MissingFile, fs_before |-> fs]]
    /\ ret = None
    /\ exc = None
    /\ cmds = <<>>
    /\ envs = <<>>

DeployJobsAfter ==
    /\ Fresh
    /\ \E file \in RoundTripFiles :
       \E f \in FailChoices(file), query \in RoundTripPs :
       \E failing \in FailingChoices(query) :
        /\ call' = [prev |-> call.prev]
                        @@ TaskCall("deploy_jobs", None, file, f, query)
        /\ Commit(deploy_jobs(World, None, file, "dev",
                    [aws_install |-> InstallOk, prompt |-> "", bws_install |-> InstallOk,
                     bws |-> NoBwsResult, fail |-> f, ps |-> query,
                     failing |-> failing]))

RemoveJobsAfter ==
    /\ Fresh
    /\ \E file \in RoundTripFiles, query \in RoundTripPs :
       \E failing \in FailingChoices(query) :
        /\ call' = [prev |-> call.prev]
                        @@ TaskCall("remove_jobs", None, file, NoFailure, query)
        /\ Commit(remove_jobs(World, file, "dev",
                    [ps |-> query, failing |-> failing]))

\* the process ends; the next one starts and knows what this one ran
NewProcessAfter ==
    /\ ~Fresh
    /\ call' = [op |-> "none", prev |-> LastCall(call)]
    /\ ret' = None
    /\ exc' = None
    /\ cmds' = <<>>
    /\ envs' = <<>>
    /\ path' = INHERITED_PATH
    /\ UNCHANGED <<environ, sys_bin, local_bin, fs>>

NextRoundTrip == DeployJobsAfter \/ RemoveJobsAfter \/ NewProcessAfter

SpecRoundTrip == InitRoundTrip /\ [][NextRoundTrip]_vars

\* remove_jobs runs right after deploy_jobs, on the same descriptor
RoundTrip ==
    /\ IsRemove
    /\ call.prev.op = "deploy_jobs"
    /\ call.prev.file = call.file
BeforeDeployment == call.prev.fs_before

\* C16 (as stated): remove_jobs right after deploy_jobs leaves dags_path and
\* jobs_path in the state they had before the deployment.
C16_RoundTripRestores ==
    RoundTrip =>
        /\ fs.dags_files = BeforeDeployment.dags_files
        /\ fs.jobs_files = BeforeDeployment.jobs_files

\* C16 (amended): remove_jobs right after deploy_jobs leaves dags_path and
\* jobs_path empty whenever the descriptor is readable and both directories
\* exist, however the deployment and the restart ended: that is the state
\* before the deployment only if both directories were empty then; what
\* they held before the deployment is not brought back.  When the
\* descriptor is unreadable or a directory is missing, neither task touches
\* the directories.
C16_RoundTripLeavesEmpty ==
    RoundTrip =>
        /\ (FileOk /\ PathsExisted) =>
              (fs.dags_files = {} /\ fs.jobs_files = {})
        /\ (FileOk /\ PathsExisted /\ BeforeDeployment.dags_files = {}
                /\ BeforeDeployment.jobs_files = {}) =>
              /\ fs.dags_files = BeforeDeployment.dags_files
              /\ fs.jobs_files = BeforeDeployment.jobs_files
        /\ ~(FileOk /\ PathsExisted) =>
              /\ fs.dags_files = BeforeDeployment.dags_files
              /\ fs.jobs_files = BeforeDeployment.jobs_files

C16_Witness ==
    /\ RoundTrip
    /\ FileOk /\ PathsExisted
    /\ BeforeDeployment.dags_files = {}
    /\ BeforeDeployment.jobs_files = {}
    /\ call.fs_before.dags_files # {}
    /\ call.fs_before.jobs_files # {}
    /\ fs.dags_files = {}
    /\ fs.jobs_files = {}

-----------------------------------------------------------------------------
(* Specification of the docker up tasks: each process runs                 *)
(* _launch_services once (docker.up, docker.up-daemon).                    *)

LaunchConfigs ==
    {[k \in DOMAIN d \cup {"aws_region"} |->
         IF k = "aws_region" THEN "cfg" ELSE d[k]] :
       d \in UNION {[D -> {"cfg"}] : D \in SUBSET {"aws_account_id"}}}
LaunchFlags ==
    {l @@ k : l \in Dicts({"load_secrets_from_bws"}, {PyTrue, PyFalse}),
              k \in Dicts({"skip_ecr_login"}, {PyTrue})}
LaunchProfiles == {NoProfiles}
LaunchFiles ==
    {MissingFile, InvalidFile}
    \cup {File(Config(c @@ f, NoJobs, p)) :
            c \in LaunchConfigs, f \in LaunchFlags, p \in LaunchProfiles}

\* the --profiles and --detach options of the launches explored: each value
\* of either option occurs
UpOptions ==
    {[profiles |-> <<>>, detach |-> TRUE],
     [profiles |-> <<"infra", " api ">>, detach |-> FALSE]}

\* the listing command fails, prints the two AWS keys, one of them, one of
\* them and a secret named ENV, or null
LaunchBwsResults ==
    {[ok |-> FALSE, stdout |-> Json("invalid", <<>>)],
     [ok |-> TRUE, stdout |-> Json("null", <<>>)],
     [ok |-> TRUE,
      stdout |-> Json("list", <<SecretRecord(AWS_KEY_ID_VARIABLE_NAME, "bws")>>)],
     [ok |-> TRUE,
      stdout |-> Json("list", <<SecretRecord(AWS_KEY_ID_VARIABLE_NAME, "bws"),
                                SecretRecord("ENV", "bws")>>)],
     [ok |-> TRUE,
      stdout |-> Json("list", <<SecretRecord(AWS_KEY_ID_VARIABLE_NAME, "bws"),
                                SecretRecord(AWS_SECRET_VARIABLE_NAME, "bws")>>)]}

\* the process exports both AWS keys or neither, never a session token
LaunchEnvirons ==
    {e \in [EnvKeys -> {None, "env"}] :
        /\ e[AWS_TOKEN_VARIABLE_NAME] = None
        /\ e[AWS_SECRET_VARIABLE_NAME] = e[AWS_KEY_ID_VARIABLE_NAME]}

InitLaunch ==
    /\ environ \in LaunchEnvirons
    /\ path = INHERITED_PATH
    /\ sys_bin \in {{}, {"aws", "bws"}}
    /\ local_bin = {}
    /\ fs = NoFs
    /\ Idle

LaunchWantsSecrets(load, file) ==
    file.state = "ok" /\ Truthy(EffectiveLoadSecrets(load, file.config))
LaunchWantsLogin(skip, file) ==
    /\ file.state = "ok"
    /\ ~Truthy(Or(skip, GetD(file.config.data, "skip_ecr_login", PyFalse)))
LaunchPrompts(load, file) ==
    IF LaunchWantsSecrets(load, file)
       /\ ~Truthy(EnvGet(environ, BWS_TOKEN_VARIABLE_NAME))
    THEN {"typed", ""} ELSE {""}
LaunchBwsInstalls(load, file) ==
    IF LaunchWantsSecrets(load, file) THEN {io \in InstallChoices("bws") : io.step # "install"}
    ELSE {InstallOk}
LaunchBwsChoices(load, file, prompt) ==
    IF /\ LaunchWantsSecrets(load, file)
       /\ (Truthy(EnvGet(environ, BWS_TOKEN_VARIABLE_NAME)) \/ Truthy(prompt))
    THEN LaunchBwsResults ELSE {NoBwsResult}
LaunchAwsInstalls(skip, file) ==
    IF LaunchWantsLogin(skip, file) THEN InstallChoices("aws") ELSE {InstallOk}
LaunchLogins(skip, file) ==
    IF LaunchWantsLogin(skip, file) THEN LoginOutcomes ELSE {"ok"}

LaunchServices ==
    /\ Fresh
    /\ \E opt \in UpOptions, load \in LoadArgs,
          skip \in {PyFalse, PyTrue}, file \in LaunchFiles :
       \E p \in LaunchPrompts(load, file), bi \in LaunchBwsInstalls(load, file),
          ai \in LaunchAwsInstalls(skip, file), lo \in LaunchLogins(skip, file),
          u \in {"ok", "failed"} :
       \E b \in LaunchBwsChoices(load, file, p) :
        /\ call' = [op |-> "_launch_services", profiles |-> opt.profiles,
                    detach |-> opt.detach, env |-> DEFAULT_ENV,
                    load_secrets_from_bws |-> load, skip_ecr_login |-> skip,
                    file |-> file, bws |-> b,
                    bws_found |-> _find_tool(World, "bws") # None,
                    aws_found |-> _find_tool(World, "aws") # None]
        /\ Commit(_launch_services(World, opt.profiles, opt.detach,
                    DEFAULT_ENV, load, skip, file,
                    [prompt |-> p, bws_install |-> bi, bws |-> b,
                     aws_install |-> ai, login |-> lo, up |-> u]))

NextLaunch == LaunchServices \/ NewProcess

SpecLaunch == InitLaunch /\ [][NextLaunch]_vars

IsLaunch == call.op = "_launch_services"

\* the secret map the call obtained
LoadedSecrets ==
    IF ListingIssued /\ exc \notin {"TypeError", "AttributeError"}
    THEN CollectSecrets(call.bws.stdout.items, 1, EmptyDict).d
    ELSE EmptyDict
LaunchResolved(key) ==
    Truthy(_get_config_from_sources(environ, key, Some(LoadedSecrets), None))

\* the call reached _aws_ecr_login: the descriptor loaded, the login is not
\* skipped, and loading the secrets left no exception
LoginCalled ==
    /\ FileOk
    /\ ~Truthy(Or(call.skip_ecr_login,
                  GetD(call.file.config.data, "skip_ecr_login", PyFalse)))
    /\ exc \notin {"TypeError", "AttributeError"}

\* C10: with account id and region configured but the access key or the
\* secret key resolvable neither from the environment nor from the secret
\* map, _aws_ecr_login issues no login command and returns failure, and
\* _launch_services still runs docker compose up.
C10_UpAfterUnresolvedCredentials ==
    (/\ IsLaunch /\ LoginCalled
     /\ Configured("aws_account_id") /\ Configured("aws_region")
     /\ ~(LaunchResolved(AWS_KEY_ID_VARIABLE_NAME)
          /\ LaunchResolved(AWS_SECRET_VARIABLE_NAME)))
    => /\ Count(cmds, ECR_LOGIN) = 0
       /\ Has(cmds, "log", NOT_AUTHENTICATED)
       /\ Count(cmds, LAUNCH_UP) = 1
       /\ cmds[Len(cmds)][1] = LAUNCH_UP
       /\ exc \in {None, "UnexpectedExit"}

C10_Witness ==
    /\ IsLaunch /\ LoginCalled
    /\ Configured("aws_account_id") /\ Configured("aws_region")
    /\ ListingIssued
    /\ LaunchResolved(AWS_KEY_ID_VARIABLE_NAME)
    /\ ~LaunchResolved(AWS_SECRET_VARIABLE_NAME)
    /\ ToolEnsured
    /\ Count(cmds, ECR_LOGIN) = 0
    /\ Has(cmds, "log", NOT_AUTHENTICATED)
    /\ cmds[Len(cmds)][1] = LAUNCH_UP
    /\ exc = None

-----------------------------------------------------------------------------
(* Specifications of the descriptor readers: _load_deployment_config, and  *)
(* _ensure_bws_token and _get_profiles_args, which read through it.        *)

\* longest profiles list of a descriptor
MaxProfiles == 2

ReaderConfigVals == {"", "cfg"}
ReaderProfileNames == {"infra", "api", "a,b"}
ReaderProfileLists ==
    {NoProfiles}
    \cup {[present |-> TRUE, items |-> l] : l \in SeqsUpTo(ReaderProfileNames, MaxProfiles)}
ReaderFiles ==
    {MissingFile, InvalidFile, EmptyFile}
    \cup {File(Config(d, NoJobs, p)) :
            d \in Dicts({"bws_access_token"}, ReaderConfigVals),
            p \in ReaderProfileLists}

InitReaders ==
    /\ environ \in {e \in Environs : \A k \in AwsKeys : e[k] = None}
    /\ path = INHERITED_PATH
    /\ sys_bin = {}
    /\ local_bin = {}
    /\ fs = NoFs
    /\ Idle

LoadDeploymentConfig ==
    /\ Fresh
    /\ \E file \in ReaderFiles :
        /\ call' = [op |-> "_load_deployment_config", file |-> file]
        /\ ret' = _load_deployment_config(file).config
        /\ exc' = _load_deployment_config(file).exc
        /\ cmds' = <<>>
        /\ UNCHANGED <<environ, path, sys_bin, local_bin, fs, envs>>

EnsureBwsToken ==
    /\ Fresh
    /\ \E file \in ReaderFiles, p \in PromptOutcomes :
        /\ call' = [op |-> "_ensure_bws_token", file |-> file, prompt |-> p]
        /\ Commit(_ensure_bws_token(World, file, p))

\* the --profiles option: not given, empty, or comma-separated names
ReaderProfileOptions == {<<>>, <<"">>, <<"infra">>, <<" api ", "infra">>}

GetProfilesArgs ==
    /\ Fresh
    /\ \E profiles \in ReaderProfileOptions, file \in ReaderFiles :
        /\ call' = [op |-> "_get_profiles_args", profiles |-> profiles,
                    file |-> file]
        /\ ret' = _get_profiles_args(profiles, file).ret
        /\ exc' = _get_profiles_args(profiles, file).exc
        /\ cmds' = <<>>
        /\ UNCHANGED <<environ, path, sys_bin, local_bin, fs, envs>>

\* each process calls _load_deployment_config once
NextConfig == LoadDeploymentConfig \/ NewProcess

SpecConfig == InitReaders /\ [][NextConfig]_vars

\* each process calls _ensure_bws_token or _get_profiles_args once
NextReaders == EnsureBwsToken \/ GetProfilesArgs \/ NewProcess

SpecReaders == InitReaders /\ [][NextReaders]_vars

IsLoadConfig == call.op = "_load_deployment_config"

\* C12 (as stated): _load_deployment_config ends with Exit when the file
\* does not exist and when it fails to parse, and returns an empty config
\* for an empty file.
C12_ExitOnMissingOrInvalid ==
    IsLoadConfig =>
        /\ call.file.state \in {"missing", "invalid"} => exc = "Exit"
        /\ call.file.state = "empty" => (exc = None /\ ret = EmptyConfig)

\* C12 (amended): _load_deployment_config ends with Exit when the file does
\* not exist; when the file fails to parse it logs the error and re-raises
\* the parser's YAMLError (not Exit); for an empty file it returns an empty
\* config and no error; a file that holds a config yields that config.
C12_ExitOnMissingReraiseOnInvalid ==
    IsLoadConfig =>
        /\ call.file.state = "missing" => exc = "Exit"
        /\ call.file.state = "invalid" => exc = "YAMLError"
        /\ call.file.state = "empty" => (exc = None /\ ret = EmptyConfig)
        /\ call.file.state = "ok" => (exc = None /\ ret = call.file.config)

C12_Witness ==
    /\ IsLoadConfig
    /\ call.file.state = "invalid"
    /\ exc = "YAMLError"

IsEnsureToken == call.op = "_ensure_bws_token"
TokenEnv == EnvGet(environ, BWS_TOKEN_VARIABLE_NAME)
TokenConfig == Get(call.file.config.data, "bws_access_token")
Readable == call.file.state \in {"ok", "empty"}
Prompted == cmds = <<<<"input", call.prompt>>>>
Interrupted == call.prompt \in {"EOFError", "KeyboardInterrupt"}

\* C13 (as stated): _ensure_bws_token returns BWS_ACCESS_TOKEN when it is
\* set; otherwise the config key bws_access_token when it is set; only when
\* neither is set does it prompt, returning the entered text, or None when
\* the entry is empty or the prompt is interrupted; it never raises.
C13_EnvThenConfigThenPrompt ==
    IsEnsureToken =>
        /\ exc = None
        /\ TokenEnv # None => (ret = TokenEnv /\ cmds = <<>>)
        /\ (TokenEnv = None /\ TokenConfig # None) =>
              (ret = TokenConfig /\ cmds = <<>>)
        /\ (TokenEnv = None /\ TokenConfig = None) =>
              /\ Prompted
              /\ ret = IF Interrupted \/ call.prompt = "" THEN None
                       ELSE call.prompt

\* C13 (amended): _ensure_bws_token returns BWS_ACCESS_TOKEN when it is set
\* to a non-empty value, without reading the descriptor; otherwise it reads
\* the descriptor, failing with Exit when the file is missing and with the
\* parser's error when it is not valid YAML, and returns the config key
\* bws_access_token when that is non-empty; only when neither holds a
\* non-empty value does it prompt, once, returning the entered text with
\* surrounding whitespace stripped, or None when the stripped entry is empty
\* or the prompt is interrupted (EOF or keyboard interrupt): an interrupt at
\* the prompt never leaves the function as an exception.
C13_NonEmptyEnvThenConfigThenPrompt ==
    IsEnsureToken =>
        /\ Truthy(TokenEnv) => (exc = None /\ ret = TokenEnv /\ cmds = <<>>)
        /\ (~Truthy(TokenEnv) /\ call.file.state = "missing") =>
              (exc = "Exit" /\ cmds = <<>>)
        /\ (~Truthy(TokenEnv) /\ call.file.state = "invalid") =>
              (exc = "YAMLError" /\ cmds = <<>>)
        /\ (~Truthy(TokenEnv) /\ Readable /\ Truthy(TokenConfig)) =>
              (exc = None /\ ret = TokenConfig /\ cmds = <<>>)
        /\ (~Truthy(TokenEnv) /\ Readable /\ ~Truthy(TokenConfig)) =>
              /\ exc = None
              /\ Prompted
              /\ ret = IF Interrupted \/ Strip(call.prompt) = "" THEN None
                       ELSE Strip(call.prompt)

C13_Witness ==
    /\ IsEnsureToken
    /\ TokenEnv = None
    /\ Readable /\ TokenConfig = None
    /\ call.prompt = "KeyboardInterrupt"
    /\ Prompted
    /\ exc = None
    /\ ret = None

-----------------------------------------------------------------------------
(* Specification of the tool bootstrap: each process calls                 *)
(* _ensure_tool_installed or one of the installers once, with the tools    *)
(* the previous processes installed.                                       *)

Tools == {"bws", "aws"}

\* the steps of a tool's installer that can fail
StepOutcomes(tool_name) ==
    IF tool_name = "bws" THEN {io \in InstallOutcomes : io.step # "install"} ELSE InstallOutcomes

\* any tools on the system path; an interrupted earlier run may have left
\* its archive or temporary directory behind
InitTools ==
    /\ environ = [k \in EnvKeys |-> None]
    /\ path = INHERITED_PATH
    /\ sys_bin \in SUBSET Tools
    /\ local_bin = {}
    /\ fs \in {[NoFs EXCEPT !.bws_zip = z, !.aws_temp = t] :
                 z \in BOOLEAN, t \in BOOLEAN}
    /\ Idle

ToolCall(op, tool_name, outcome) ==
    [op |-> op, tool_name |-> tool_name, outcome |-> outcome,
     found |-> _find_tool(World, tool_name) # None,
     path_before |-> path, local_bin_before |-> local_bin,
     fs_before |-> fs]

EnsureToolInstalled ==
    /\ Fresh
    /\ \E t \in Tools : \E io \in StepOutcomes(t) :
        /\ call' = ToolCall("_ensure_tool_installed", t, io)
        /\ Commit(_ensure_tool_installed(World, t, io))

InstallBwsCli ==
    /\ Fresh
    /\ \E io \in StepOutcomes("bws") :
        /\ call' = ToolCall("_install_bws_cli", "bws", io)
        /\ Commit(_install_bws_cli(World, io))

InstallAwsCli ==
    /\ Fresh
    /\ \E io \in StepOutcomes("aws") :
        /\ call' = ToolCall("_install_aws_cli", "aws", io)
        /\ Commit(_install_aws_cli(World, io))
\* the unlink can fail only when there is a file to unlink
UnlinkOutcomes == IF "bws" \in local_bin THEN {"ok", "failed"} ELSE {"ok"}

RemoveBwsCli ==
    /\ Fresh
    /\ \E uo \in UnlinkOutcomes :
        /\ call' = ToolCall("remove_bws_cli", "bws", uo)
        /\ Commit(remove_bws_cli(World, uo))

NextTools ==
    EnsureToolInstalled \/ InstallBwsCli \/ InstallAwsCli \/ RemoveBwsCli
        \/ NewProcess

SpecTools == InitTools /\ [][NextTools]_vars

IsEnsureTool == call.op = "_ensure_tool_installed"
IsInstaller == call.op \in {"_install_bws_cli", "_install_aws_cli"}
InstallerCalls == Count(cmds, "curl")
InstalledNow == _find_tool(World, call.tool_name) # None

\* C17: _ensure_tool_installed returns True without calling the installer
\* when the tool is resolvable; otherwise it calls the installer exactly
\* once and returns True if and only if the tool is installed afterwards; an
\* installer failure comes back as False, never as an exception.
C17_EnsureReportsInstallation ==
    IsEnsureTool =>
        /\ exc = None
        /\ call.found =>
              /\ ret = PyTrue
              /\ InstallerCalls = 0 /\ cmds = <<>>
              /\ local_bin = call.local_bin_before
        /\ ~call.found =>
              /\ InstallerCalls = 1
              /\ ret \in {PyTrue, PyFalse}
              /\ ret = PyTrue <=> InstalledNow
              /\ call.outcome.step # "ok" => ret = PyFalse

C17_Witness ==
    /\ IsEnsureTool
    /\ call.tool_name = "aws"
    /\ ~call.found
    /\ call.outcome.step = "install"
    /\ InstallerCalls = 1
    /\ ret = PyFalse
    /\ exc = None
    /\ ~InstalledNow

\* what an installer downloads into
Leftover ==
    IF call.tool_name = "bws" THEN fs.bws_zip ELSE fs.aws_temp

\* C18 (as stated): once an installer has begun downloading, its archive or
\* temporary directory no longer exists when it returns or raises, whichever
\* of the download, unzip and install steps failed; and PATH is extended with
\* ~/.local/bin exactly when the installation succeeded.
C18_CleanupAndPath ==
    (IsInstaller /\ InstallerCalls > 0) =>
        /\ ~Leftover
        /\ exc = None <=> call.outcome.step = "ok"
        /\ exc = None => path = <<LOCAL_BIN_PATH>> \o call.path_before
        /\ exc # None =>
              (exc = "CalledProcessError" /\ path = call.path_before)

\* C18 (amended): once an installer has begun downloading, it tries to remove
\* its archive or temporary directory before it returns or raises, whichever
\* of the download, unzip and install steps failed: the path no longer exists
\* when the removal succeeds, and is left behind, the installer's result
\* unchanged, when the removal itself fails; and PATH is extended with
\* ~/.local/bin exactly when the installation succeeded.
C18_CleanupBestEffort ==
    (IsInstaller /\ InstallerCalls > 0) =>
        /\ Leftover <=> call.outcome.cleanup = "failed"
        /\ exc = None <=> call.outcome.step = "ok"
        /\ exc = None => path = <<LOCAL_BIN_PATH>> \o call.path_before
        /\ exc # None =>
              (exc = "CalledProcessError" /\ path = call.path_before)

C18_Witness ==
    /\ call.op = "_install_aws_cli"
    /\ call.outcome = [step |-> "unzip", cleanup |-> "ok"]
    /\ cmds = <<<<"curl", "aws">>, <<"unzip", "aws">>>>
    /\ exc = "CalledProcessError"
    /\ ~fs.aws_temp
    /\ path = call.path_before

IsProfilesArgs == call.op = "_get_profiles_args"

\* the profiles selected: the explicit option's names, else the descriptor's
\* list, else ['infra']
Selected ==
    IF Given(call.profiles)
    THEN [i \in DOMAIN call.profiles |-> Strip(call.profiles[i])]
    ELSE IF call.file.config.profiles.present
         THEN call.file.config.profiles.items
         ELSE <<"infra">>

RECURSIVE OneArgEach(_)
\* one "--profile <name>" per name, in order, separated by blanks
OneArgEach(names) ==
    IF names = <<>> THEN ""
    ELSE IF Len(names) = 1 THEN "--profile " \o names[1]
    ELSE "--profile " \o names[1] \o " " \o OneArgEach(Tail(names))

\* C19: for every selection of profiles, _get_profiles_args yields exactly
\* one "--profile <name>" argument per selected profile, in the given order,
\* the explicit option taking precedence over the descriptor.
C19_OneArgPerProfile ==
    (IsProfilesArgs /\ exc = None) => ret = OneArgEach(Selected)

-----------------------------------------------------------------------------
(* Specification of the docker tasks down and restart: each process runs   *)
(* one of them once.                                                       *)

LifecycleFiles ==
    {MissingFile, InvalidFile, EmptyFile}
    \cup {File(Config([skip_ecr_login |-> PyTrue,
                       load_secrets_from_bws |-> PyFalse], NoJobs, p)) :
            p \in ReaderProfileLists}

YesFlags == {PyFalse, PyTrue}

\* the answers that get asked for: none with --yes, and none after a
\* refusal to stop or a closed input
ConfirmChoices(yes) ==
    IF Truthy(yes) THEN {<<"", "", "">>}
    ELSE {c \in [1..3 -> ConfirmOutcomes] :
            /\ Lower(c[1]) # "y" => (c[2] = "" /\ c[3] = "")
            /\ c[2] = "EOFError" => c[3] = ""}

InitLifecycle ==
    /\ environ = [k \in EnvKeys |-> None]
    /\ path = INHERITED_PATH
    /\ sys_bin = {"aws", "bws"}
    /\ local_bin = {}
    /\ fs = NoFs
    /\ Idle

LifecycleCall(op, profiles, yes, file, c, d, u) ==
    [op |-> op, profiles |-> profiles, yes |-> yes, env |-> DEFAULT_ENV,
     file |-> file, confirm |-> c, down |-> d, up |-> u]

Down ==
    /\ Fresh
    /\ \E profiles \in ReaderProfileOptions, yes \in YesFlags,
          file \in LifecycleFiles, d \in {"ok", "failed"} :
       \E c \in ConfirmChoices(yes) :
        /\ call' = LifecycleCall("down", profiles, yes, file, c, d, "ok")
        /\ Commit(down(World, profiles, yes, DEFAULT_ENV, file,
                       [confirm |-> c, down |-> d]))

Restart ==
    /\ Fresh
    /\ \E profiles \in ReaderProfileOptions, yes \in YesFlags,
          file \in LifecycleFiles, d \in {"ok", "failed"},
          u \in {"ok", "failed"} :
       \E c \in ConfirmChoices(yes) :
        /\ call' = LifecycleCall("restart", profiles, yes, file, c, d, u)
        /\ Commit(restart(World, profiles, yes, DEFAULT_ENV, None, PyFalse,
                          file,
                          [confirm |-> c, down |-> d, up |-> u,
                           prompt |-> "", bws_install |-> InstallOk,
                           bws |-> NoBwsResult, aws_install |-> InstallOk,
                           login |-> "ok"]))

NextLifecycle == Down \/ Restart \/ NewProcess

SpecLifecycle == InitLifecycle /\ [][NextLifecycle]_vars

IsDown == call.op = "down"
IsRestart == call.op = "restart"

\* the compose command lines issued, by kind
Downs == {i \in DOMAIN cmds : cmds[i][1] = PROFILES_DOWN}
Ups == {i \in DOMAIN cmds : cmds[i][1] = LAUNCH_UP}

\* C20: the restart task stops the services with compose down and then
\* starts them again with compose up, in that order, for the same profiles
\* and environment: a confirmed restart on a readable descriptor whose
\* commands succeed issues a compose down and, after it, a compose up.
C20_DownThenUp ==
    (IsRestart /\ Truthy(call.yes) /\ Readable
        /\ call.down = "ok" /\ call.up = "ok") =>
        \E i \in Downs : \E j \in Ups : i < j

-----------------------------------------------------------------------------
(* Further properties of deploy_jobs and remove_jobs (specification Spec). *)

\* the aws tool was not on PATH at the call and the installer did not
\* provide it
AwsUnavailable == ~call.aws_found /\ "aws" \notin local_bin

\* C21: if the aws tool is neither resolvable nor installable, deploy_jobs
\* exits with code 1 before it loads secrets, creates the workspace,
\* downloads any artifact or issues any compose command.
C21_NoToolAbortsBeforeWork ==
    (IsDeploy /\ AwsUnavailable) =>
        /\ exc # None
        /\ FileOk => exc = "Exit"
        /\ Kinds(cmds) \cap ({BWS_LIST, "input", "mkdir"} \cup StepKinds
                              \cup {COMPOSE_PS, COMPOSE_DOWN, COMPOSE_UP}) = {}
        /\ DeploymentFiles(fs) = DeploymentFiles(call.fs_before)

C21_Witness ==
    /\ IsDeploy /\ AwsUnavailable
    /\ FileOk /\ PathsExisted
    /\ CallJobs.items # <<>>
    /\ Truthy(EffectiveLoadSecrets(call.load_secrets_from_bws, call.file.config))
    /\ Count(cmds, "curl") = 1
    /\ exc = "Exit"

-----------------------------------------------------------------------------
(* Specification of the configuration check: each process calls            *)
(* _check_aws_configuration once.                                          *)

CheckConfigKeys == {"aws_account_id", "aws_region"}
CheckFiles ==
    {MissingFile, InvalidFile, EmptyFile}
    \cup {File(Config(d, NoJobs, NoProfiles)) :
            d \in Dicts(CheckConfigKeys, CredConfigVals)}

\* deployment_file is not given (the default descriptor is read) or names
\* another file
CheckFilePairs ==
    {<<f, f>> : f \in CheckFiles} \cup {<<f, File(EmptyConfig)>> : f \in CheckFiles}

CheckAwsConfiguration ==
    /\ Fresh
    /\ \E s \in CredSecrets, fp \in CheckFilePairs, lo \in LoginOutcomes :
        /\ call' = [op |-> "_check_aws_configuration", bws_secrets |-> s,
                    file |-> fp[1], default_file |-> fp[2],
                    aws_found |-> _find_tool(World, "aws") # None]
        /\ Commit(_check_aws_configuration(World, s, fp[1], fp[2], lo))

NextCheck == CheckAwsConfiguration \/ NewProcess

SpecCheck == InitCreds /\ [][NextCheck]_vars

IsCheckAws == call.op = "_check_aws_configuration"

\* C22: _check_aws_configuration only logs its results and does not raise,
\* for every secret map and every deployment configuration.
C22_CheckNeverRaises ==
    IsCheckAws => exc = None

-----------------------------------------------------------------------------
(* Specification of the subprocess environments: each process calls        *)
(* _aws_ecr_login, _get_codeartifact_token or _launch_services once.       *)

NextEnv ==
    AwsEcrLogin \/ GetCodeartifactToken \/ LaunchServices \/ NewProcess

SpecEnv == InitLaunch /\ [][NextEnv]_vars

UsesCredentials ==
    call.op \in {"_aws_ecr_login", "_get_codeartifact_token", "_launch_services"}

\* the mappings handed to the subprocesses of one kind
EnvsOf(kind) == {envs[i][2] : i \in {j \in DOMAIN envs : envs[j][1] = kind}}

\* C23: resolved credentials and secret-map values live only in the
\* environment mapping handed to the spawned subprocess: no execution of
\* _aws_ecr_login, _get_codeartifact_token or _launch_services changes the
\* credential variables of os.environ or the files the tasks keep on disk
\* (an installer run by them may prepend ~/.local/bin to PATH, add the tool
\* to that directory and leave its download behind when the removal fails,
\* nothing else).
C23_SecretsOnlyInSubprocessEnv ==
    [][UsesCredentials' =>
          /\ environ' = environ
          /\ DeploymentFiles(fs') = DeploymentFiles(fs)]_vars

\* a login and a compose up that were handed an access key taken from the
\* secret map, which the process environment does not hold
C23_Witness ==
    /\ IsLaunch
    /\ environ[AWS_KEY_ID_VARIABLE_NAME] = None
    /\ \E m \in EnvsOf(ECR_LOGIN) : m[AWS_KEY_ID_VARIABLE_NAME] = "bws"
    /\ \E m \in EnvsOf(LAUNCH_UP) : m[AWS_KEY_ID_VARIABLE_NAME] = "bws"
    /\ exc = None

-----------------------------------------------------------------------------
(* Specification of the destructive docker tasks: each process runs down,  *)
(* remove_network or clean_environment once.                               *)

NoAnswers == <<"", "", "">>

CleanChoices(yes) ==
    IF Truthy(yes) THEN {<<"", "", "", "", "">>} ELSE [1..5 -> {"y", "n"}]
NestedConfirmChoices(yes, answer) ==
    IF Truthy(yes) \/ Lower(answer) = "y" THEN ConfirmChoices(yes)
    ELSE {NoAnswers}
NetChoices(yes, answer) ==
    IF ~Truthy(yes) /\ Lower(answer) = "y" THEN ConfirmOutcomes ELSE {""}
NetworkStates == {"exists", "absent"}
CleanFailures == {"none", PROFILES_DOWN, NETWORK_RM, VOLUME_PRUNE}

CleanCall(op, yes, file, clean, c, net) ==
    [op |-> op, profiles |-> <<>>, yes |-> yes, env |-> DEFAULT_ENV,
     file |-> file, clean |-> clean, confirm |-> c, net |-> net]

CleanOutcomes(clean, c, net, network, fail) ==
    [clean |-> clean, confirm |-> c, net |-> net, network |-> network,
     fail |-> fail, down |-> IF fail = PROFILES_DOWN THEN "failed" ELSE "ok"]

RemoveNetwork ==
    /\ Fresh
    /\ \E yes \in YesFlags, network \in NetworkStates,
          fail \in {"none", NETWORK_RM} :
       \E net \in (IF Truthy(yes) THEN {""} ELSE ConfirmOutcomes) :
        /\ call' = CleanCall("remove_network", yes, File(EmptyConfig),
                             <<>>, NoAnswers, net)
        /\ Commit(remove_network(World, yes,
                    CleanOutcomes(<<>>, NoAnswers, net, network, fail)))

CleanEnvironment ==
    /\ Fresh
    /\ \E yes \in YesFlags, file \in LifecycleFiles,
          network \in NetworkStates, fail \in CleanFailures :
       \E clean \in CleanChoices(yes) :
       \E c \in NestedConfirmChoices(yes, clean[1]),
          net \in NetChoices(yes, clean[2]) :
        /\ call' = CleanCall("clean_environment", yes, file, clean, c, net)
        /\ Commit(clean_environment(World, yes, DEFAULT_ENV, file,
                    CleanOutcomes(clean, c, net, network, fail)))

NextClean == Down \/ RemoveNetwork \/ CleanEnvironment \/ NewProcess

SpecClean == InitLifecycle /\ [][NextClean]_vars

IsRemoveNetwork == call.op = "remove_network"
IsClean == call.op = "clean_environment"

\* the confirmation was given: --yes, or the answer is y in either case
Affirmed(answer) == Truthy(call.yes) \/ Lower(answer) = "y"
PyBool(b) == IF b THEN PyTrue ELSE PyFalse

IssuedAt(kind) == {i \in DOMAIN cmds : cmds[i][1] = kind}

\* the question was put before the i-th command, unless --yes was passed
AskedBefore(message, i) ==
    Truthy(call.yes) \/ \E j \in 1..(i - 1) : cmds[j] = <<"input", message>>

\* the compose down command the answers call for
ConfirmedDownCommand ==
    DownCommand(call.env, _get_profiles_args(call.profiles, call.file).ret,
                PyBool(Affirmed(call.confirm[2])),
                PyBool(Affirmed(call.confirm[3])))

\* C24: down, remove_network and clean_environment issue a destructive
\* command (compose down, docker network rm, docker system / volume /
\* network prune) only after the confirmation of that action was answered
\* y or yes=True was passed; a declined action's command is not issued; and
\* compose down carries --volumes and --remove-orphans exactly when their
\* own confirmations were given.
C24_DestructiveOnlyAfterConfirmation ==
    /\ (IsDown \/ IsClean) =>
          \A i \in IssuedAt(PROFILES_DOWN) :
              /\ IsClean => Affirmed(call.clean[1])
              /\ Affirmed(call.confirm[1])
              /\ AskedBefore("Are you sure you want to stop all containers?", i)
              /\ cmds[i][2] = ConfirmedDownCommand
    /\ (IsRemoveNetwork \/ IsClean) =>
          \A i \in IssuedAt(NETWORK_RM) :
              /\ IsClean => Affirmed(call.clean[2])
              /\ Affirmed(call.net)
              /\ AskedBefore("Are you sure you want to remove the Docker network?", i)
    /\ IsClean =>
          /\ \A i \in IssuedAt(SYSTEM_PRUNE) :
                /\ Affirmed(call.clean[3])
                /\ AskedBefore("Do you want to remove unused Docker data (docker system prune)?", i)
          /\ \A i \in IssuedAt(VOLUME_PRUNE) :
                /\ Affirmed(call.clean[4])
                /\ AskedBefore("Do you want to remove unused Docker volumes (docker volume prune)?", i)
          /\ \A i \in IssuedAt(NETWORK_PRUNE) :
                /\ Affirmed(call.clean[5])
                /\ AskedBefore("Do you want to remove unused Docker networks (docker network prune)?", i)

C24_Witness ==
    /\ IsClean /\ ~Truthy(call.yes)
    /\ call.clean = <<"y", "n", "y", "n", "y">>
    /\ call.confirm = <<"Y", "n", "y">>
    /\ \E i \in IssuedAt(PROFILES_DOWN) :
          cmds[i][2] = DownCommand(DEFAULT_ENV, "--profile infra", PyFalse, PyTrue)
    /\ IssuedAt(NETWORK_RM) = {} /\ IssuedAt(VOLUME_PRUNE) = {}
    /\ IssuedAt(SYSTEM_PRUNE) # {} /\ IssuedAt(NETWORK_PRUNE) # {}
    /\ exc = None

-----------------------------------------------------------------------------
(* The restart block of deploy_jobs and remove_jobs (specification Spec).  *)

\* C25: if the running-container query fails, deploy_jobs and remove_jobs
\* treat the services as not running: the task does not abort and issues no
\* stop/start command.
C25_FailedQueryMeansNotRunning ==
    (IsTask /\ Queried /\ ~call.ps.ok) =>
        (exc = None /\ Restarts = <<>>)

\* where a stop / start of a service was issued
StopsOf(service) == {i \in DOMAIN cmds : cmds[i] = <<COMPOSE_DOWN, service>>}
StartsOf(service) == {i \in DOMAIN cmds : cmds[i] = <<COMPOSE_UP, service>>}
RestartEvents == {i \in DOMAIN cmds : IsRestartCommand(cmds[i])}

\* the workspace was removed with every job of the map placed before
PlacedAndCleaned(r) ==
    /\ cmds[r] = <<"rmtree", WORKSPACE>>
    /\ \A k \in DOMAIN CallJobs.items :
          \E p \in 1..(r - 1) : cmds[p] = <<"place", CallJobs.items[k].name>>

\* C26: whenever deploy_jobs or remove_jobs restarts services, each
\* service's stop (compose down <service>) is issued before its start
\* (compose up <service> -d) as two distinct commands, apache_livy is fully
\* restarted before airflow-scheduler is stopped, and in deploy_jobs no
\* stop/start is issued before the last job has been placed and the
\* workspace removed.
C26_StopThenStartInOrder ==
    IsTask =>
        /\ \A s \in Range(Services) :
              /\ Cardinality(StopsOf(s)) <= 1 /\ Cardinality(StartsOf(s)) <= 1
              /\ \A j \in StartsOf(s) : \E i \in StopsOf(s) : i < j
        /\ \A i \in StopsOf("airflow-scheduler") :
              /\ \E j \in StopsOf("apache_livy") : j < i
              /\ \E j \in StartsOf("apache_livy") : j < i
        /\ IsDeploy =>
              \A i \in RestartEvents : \E r \in 1..(i - 1) : PlacedAndCleaned(r)

C26_Witness ==
    /\ IsDeploy
    /\ Len(CallJobs.items) = 2
    /\ StopsOf("apache_livy") # {} /\ StartsOf("apache_livy") # {}
    /\ StopsOf("airflow-scheduler") # {}
    /\ StartsOf("airflow-scheduler") = {}
    /\ exc = "UnexpectedExit"

-----------------------------------------------------------------------------
(* Specification of the secret map and its users: each process calls       *)
(* _load_secrets_from_bws, deploy_jobs or _launch_services once.           *)

InitSecretUse ==
    /\ environ \in {e \in [EnvKeys -> {None, "env"}] : \A k \in AwsKeys : e[k] = None}
    /\ path = INHERITED_PATH
    /\ sys_bin \in {{"aws"}, {"aws", "bws"}}
    /\ local_bin = {}
    /\ fs = NoFs
    /\ Idle

\* descriptors with or without the load_secrets_from_bws key, with no job
\* map, an empty one or one job
SecretJobFiles ==
    {File(Config(d, j, NoProfiles)) :
        d \in Dicts({"load_secrets_from_bws"}, {PyTrue, PyFalse}),
        j \in {NoJobs, [present |-> TRUE, items |-> <<>>],
               [present |-> TRUE, items |-> <<Job(PkgName(1), "1.0")>>]}}

\* deploy_jobs with every outcome of the secret stage; the later stages
\* succeed and no container is running
DeployJobsWithSecrets ==
    /\ Fresh
    /\ \E load \in LoadArgs, file \in SecretJobFiles :
       \E p \in LaunchPrompts(load, file), bi \in LaunchBwsInstalls(load, file) :
       \E b \in LaunchBwsChoices(load, file, p) :
        /\ call' = [bws |-> b, bws_found |-> _find_tool(World, "bws") # None]
                   @@ TaskCall("deploy_jobs", load, file, NoFailure,
                               [ok |-> TRUE, stdout |-> <<>>])
        /\ Commit(deploy_jobs(World, load, file, DEFAULT_ENV,
                    [aws_install |-> InstallOk, prompt |-> p, bws_install |-> bi,
                     bws |-> b, fail |-> NoFailure,
                     ps |-> [ok |-> TRUE, stdout |-> <<>>], failing |-> 0]))

NextSecretUse ==
    LoadSecretsFromBws \/ DeployJobsWithSecrets \/ LaunchServices \/ NewProcess

SpecSecretUse == InitSecretUse /\ [][NextSecretUse]_vars

\* where the token can come from
EnvToken == Truthy(EnvGet(environ, BWS_TOKEN_VARIABLE_NAME))
FileToken == Readable /\ Truthy(Get(call.file.config.data, "bws_access_token"))
TypedToken ==
    \E i \in DOMAIN cmds :
        /\ cmds[i][1] = "input"
        /\ cmds[i][2] \notin {"EOFError", "KeyboardInterrupt"}
        /\ Truthy(Strip(cmds[i][2]))
NoTokenResolved == ~EnvToken /\ ~FileToken /\ ~TypedToken
BwsNotEnsured ==
    ~NoTokenResolved /\ ~call.bws_found /\ "bws" \notin local_bin

\* the caller reached its secret stage with loading switched on
SecretsWanted ==
    /\ FileOk
    /\ Truthy(EffectiveLoadSecrets(call.load_secrets_from_bws, call.file.config))

\* _launch_services went on to the login and to compose up with no secret
\* in the subprocess environment
LaunchProceeded ==
    \/ /\ Count(cmds, LAUNCH_UP) = 1
       /\ EnvsOf(LAUNCH_UP)
            = {Merge(OsEnviron(World), [k \in {"ENV"} |-> call.env])}
    \/ /\ LoginCalled
       /\ ~(Configured("aws_account_id") /\ Configured("aws_region"))
       /\ exc = "Exit"

\* deploy_jobs went on to the job map
DeployProceeded ==
    IF JobMapEmpty THEN exc = None /\ Count(cmds, "mkdir") = 0
    ELSE exc = None /\ Count(cmds, "mkdir") = 1 /\ Count(cmds, "place") = 1

FailSoft(unavailable) ==
    /\ IsLoadSecrets =>
          /\ Count(cmds, BWS_LIST) <= 1
          /\ unavailable => (~ListingIssued /\ exc = None /\ ret = EmptyDict)
    /\ ((IsLaunch \/ IsDeploy) /\ SecretsWanted) =>
          /\ Count(cmds, BWS_LIST) <= 1
          /\ unavailable =>
                /\ ~ListingIssued
                /\ IsLaunch => LaunchProceeded
                /\ IsDeploy => DeployProceeded

\* C27 (as stated): one call of _load_secrets_from_bws invokes the listing
\* command at most once, and never when no token was resolved or the bws
\* tool could not be ensured; in both cases it returns the empty map, and
\* deploy_jobs and _launch_services continue with an empty secret map.
C27_AtMostOnceFailSoft ==
    FailSoft(NoTokenResolved \/ BwsNotEnsured)

\* C27 (amended): the same, where "no token was resolved" means that the
\* token resolution ended without a token: with no token in the environment
\* and a descriptor that cannot be read, the resolution itself ends the
\* call with an exception instead of the empty map.
C27_AtMostOnceFailSoftReadable ==
    FailSoft((Readable /\ NoTokenResolved) \/ BwsNotEnsured)

C27_Witness ==
    /\ IsDeploy /\ SecretsWanted
    /\ EnvToken /\ BwsNotEnsured
    /\ Count(cmds, "curl") = 1
    /\ ~ListingIssued
    /\ ~JobMapEmpty
    /\ Count(cmds, "place") = 1
    /\ exc = None

-----------------------------------------------------------------------------
(* The load_secrets_from_bws switch of deploy_jobs and _launch_services.   *)

\* the value the call works with: the argument when one was passed, else
\* the descriptor's key, else true
LoadSwitch ==
    IF call.load_secrets_from_bws # None
    THEN call.load_secrets_from_bws = PyTrue
    ELSE IF "load_secrets_from_bws" \in DOMAIN call.file.config.data
         THEN call.file.config.data["load_secrets_from_bws"] = PyTrue
         ELSE TRUE

\* the call came to its secret stage: the descriptor loaded and, in
\* deploy_jobs, the target directories exist and the aws tool is available
SecretStageReached ==
    /\ FileOk
    /\ IsDeploy => /\ PathsExisted
                   /\ (call.aws_found \/ "aws" \in local_bin)

\* the token prompt appeared
TokenPrompted == Count(cmds, "input") > 0

\* the secret maps the rest of the run worked with: the mapping of every
\* fetch, and the mapping of compose up
FetchSecretsEmpty == EnvsOf("fetch") \subseteq {EmptyDict}
UpWithoutSecrets ==
    EnvsOf(LAUNCH_UP)
        \subseteq {Merge(OsEnviron(World), [k \in {"ENV"} |-> call.env])}

\* C28: in deploy_jobs and _launch_services an explicit load_secrets_from_bws
\* overrides the descriptor's key, which counts as true when absent.  With a
\* true value the call prompts exactly when no token is configured and lists
\* the secrets exactly when a token was resolved and bws is available; with
\* a false value it neither prompts nor lists, and every fetch and compose
\* up works with an empty secret map.
C28_SwitchDecidesSecretStage ==
    (IsLaunch \/ IsDeploy) =>
        /\ (TokenPrompted \/ ListingIssued) => (SecretStageReached /\ LoadSwitch)
        /\ (SecretStageReached /\ LoadSwitch) =>
              /\ TokenPrompted <=> (~EnvToken /\ ~FileToken)
              /\ ListingIssued <=> (~NoTokenResolved /\ ~BwsNotEnsured)
        /\ ~LoadSwitch => (FetchSecretsEmpty /\ (IsLaunch => UpWithoutSecrets))

\* an explicit true overrides a false key: _launch_services lists the
\* secrets and hands one to compose up
C28_Witness ==
    /\ IsLaunch
    /\ call.load_secrets_from_bws = PyTrue
    /\ Get(call.file.config.data, "load_secrets_from_bws") = PyFalse
    /\ ListingIssued
    /\ \E m \in EnvsOf(LAUNCH_UP) :
          /\ AWS_KEY_ID_VARIABLE_NAME \in DOMAIN m
          /\ m[AWS_KEY_ID_VARIABLE_NAME] = "bws"

-----------------------------------------------------------------------------
(* Specification of the tasks that take a profiles option: each process    *)
(* runs _get_profiles, _get_profiles_args, ps, build or down once.         *)

\* the option as the command line gives it: absent, empty, blank, one
\* profile, two profiles (one between blanks)
ProfilesOptions ==
    {<<>>, <<"">>, <<" ">>, <<"infra">>, <<" api ", "infra">>}

GetProfiles ==
    /\ Fresh
    /\ \E profiles \in ProfilesOptions, file \in LifecycleFiles :
        /\ call' = [op |-> "_get_profiles", profiles |-> profiles,
                    file |-> file]
        /\ ret' = _get_profiles(profiles, file).ret
        /\ exc' = _get_profiles(profiles, file).exc
        /\ cmds' = <<>>
        /\ UNCHANGED <<environ, path, sys_bin, local_bin, fs, envs>>

ProfilesArgs ==
    /\ Fresh
    /\ \E profiles \in ProfilesOptions, file \in LifecycleFiles :
        /\ call' = [op |-> "_get_profiles_args", profiles |-> profiles,
                    file |-> file]
        /\ ret' = _get_profiles_args(profiles, file).ret
        /\ exc' = _get_profiles_args(profiles, file).exc
        /\ cmds' = <<>>
        /\ UNCHANGED <<environ, path, sys_bin, local_bin, fs, envs>>

PsTask ==
    /\ Fresh
    /\ \E profiles \in ProfilesOptions, file \in LifecycleFiles,
          outcome \in {"ok", "failed"} :
        /\ call' = [op |-> "ps", profiles |-> profiles, env |-> DEFAULT_ENV,
                    file |-> file, run |-> outcome]
        /\ Commit(ps(World, profiles, DEFAULT_ENV, file, outcome))

BuildTask ==
    /\ Fresh
    /\ \E profiles \in ProfilesOptions, file \in LifecycleFiles,
          outcome \in {"ok", "failed"} :
        /\ call' = [op |-> "build", profiles |-> profiles, env |-> DEFAULT_ENV,
                    file |-> file, run |-> outcome]
        /\ Commit(build(World, profiles, DEFAULT_ENV, file, outcome))

DownWithProfiles ==
    /\ Fresh
    /\ \E profiles \in ProfilesOptions, yes \in YesFlags,
          file \in LifecycleFiles, d \in {"ok", "failed"} :
       \E c \in ConfirmChoices(yes) :
        /\ call' = LifecycleCall("down", profiles, yes, file, c, d, "ok")
        /\ Commit(down(World, profiles, yes, DEFAULT_ENV, file,
                       [confirm |-> c, down |-> d]))

NextProfiles ==
    GetProfiles \/ ProfilesArgs \/ PsTask \/ BuildTask \/ DownWithProfiles
        \/ NewProcess

SpecProfiles == InitLifecycle /\ [][NextProfiles]_vars

\* the option is a non-empty string
ProfilesGiven ==
    /\ call.op \in {"_get_profiles", "_get_profiles_args", "ps", "build", "down"}
    /\ call.profiles \notin {<<>>, <<"">>}

\* the pieces of the option, stripped, and their --profile arguments
ExplicitPieces == [i \in DOMAIN call.profiles |-> Strip(call.profiles[i])]
RECURSIVE Flags(_)
Flags(pieces) ==
    IF pieces = <<>> THEN ""
    ELSE "--profile " \o Head(pieces)
            \o (IF Len(pieces) = 1 THEN "" ELSE " " \o Flags(Tail(pieces)))
ExplicitArgs == Flags(ExplicitPieces)

\* every question of down was answered, the first one with yes
DownConfirmed ==
    \/ Truthy(call.yes)
    \/ /\ Lower(call.confirm[1]) = "y"
       /\ "EOFError" \notin {call.confirm[2], call.confirm[3]}

\* C29: with a non-empty profiles option _get_profiles and
\* _get_profiles_args give the explicit profiles whatever the deployment
\* file is, and ps, build and (once confirmed) down issue their compose
\* command with the explicit profiles; the call fails only when the command
\* itself fails, even if the deployment file is missing.
C29_ExplicitProfilesIgnoreFile ==
    ProfilesGiven =>
        /\ call.op = "_get_profiles" => (exc = None /\ ret = ExplicitPieces)
        /\ call.op = "_get_profiles_args" => (exc = None /\ ret = ExplicitArgs)
        /\ call.op = "ps" =>
              /\ cmds = <<<<PROFILES_PS, "--env-file conf/dev/.env "
                                            \o ExplicitArgs \o " ps">>>>
              /\ exc = (IF call.run = "ok" THEN None ELSE "UnexpectedExit")
        /\ call.op = "build" =>
              /\ cmds = <<<<PROFILES_BUILD, "--env-file conf/dev/.env "
                                               \o ExplicitArgs \o " build">>>>
              /\ exc = (IF call.run = "ok" THEN None ELSE "UnexpectedExit")
        /\ (IsDown /\ DownConfirmed) =>
              /\ Cardinality(Downs) = 1
              /\ \A i \in Downs :
                    \E options \in {"", " --volumes", " --remove-orphans",
                                    " --volumes --remove-orphans"} :
                        cmds[i][2] = "--env-file conf/dev/.env "
                                        \o ExplicitArgs \o " down" \o options
              /\ exc = (IF call.down = "ok" THEN None ELSE "UnexpectedExit")

\* ps with two explicit profiles and no deployment file
C29_Witness ==
    /\ call.op = "ps"
    /\ call.profiles = <<" api ", "infra">>
    /\ call.file = MissingFile
    /\ cmds = <<<<PROFILES_PS,
                  "--env-file conf/dev/.env --profile api --profile infra ps">>>>
    /\ exc = None

-----------------------------------------------------------------------------
(* The environment mapping of compose up.                                  *)

\* dict(os.environ) when compose up is started
OsVariables == OsEnviron(World)

\* C30: the mapping _launch_services hands to compose up holds the OS
\* variables, the loaded secrets and ENV, and nothing else; ENV is the
\* selected environment name, a secret wins over the OS variable of its
\* name, and every OS variable without such a secret keeps its value.  The
\* credential lookup of the login has the opposite priority: there the OS
\* variable wins over the secret.
C30_SecretsOverrideOsVariables ==
    IsLaunch =>
        /\ \A m \in EnvsOf(LAUNCH_UP) :
              /\ DOMAIN m = DOMAIN OsVariables \cup DOMAIN LoadedSecrets
                                \cup {"ENV"}
              /\ m["ENV"] = call.env
              /\ \A k \in DOMAIN LoadedSecrets \ {"ENV"} :
                    m[k] = LoadedSecrets[k]
              /\ \A k \in DOMAIN OsVariables
                            \ (DOMAIN LoadedSecrets \cup {"ENV"}) :
                    m[k] = OsVariables[k]
        /\ \A m \in EnvsOf(ECR_LOGIN) :
              environ[AWS_KEY_ID_VARIABLE_NAME] # None =>
                  m[AWS_KEY_ID_VARIABLE_NAME] = environ[AWS_KEY_ID_VARIABLE_NAME]

\* the access key id is set in the OS environment and in the secret store,
\* and there is a secret named ENV: the login runs with the OS value,
\* compose up with the secret and with ENV = dev
C30_Witness ==
    /\ IsLaunch
    /\ environ[AWS_KEY_ID_VARIABLE_NAME] = "env"
    /\ LoadedSecrets = [k \in {AWS_KEY_ID_VARIABLE_NAME, "ENV"} |-> "bws"]
    /\ \E m \in EnvsOf(ECR_LOGIN) : m[AWS_KEY_ID_VARIABLE_NAME] = "env"
    /\ \E m \in EnvsOf(LAUNCH_UP) :
          /\ m[AWS_KEY_ID_VARIABLE_NAME] = "bws"
          /\ m["ENV"] = "dev"
          /\ m["PATH"] = OsVariables["PATH"]

====
